---- MODULE Spec2Model ----
(***************************************************************************)
(* Model of the redline document store: the lock handle (DocumentLock),    *)
(* the lock coordinator (HierarchicalLock), the document repository        *)
(* (GCSDocumentStore) and the redline endpoints, over an object store with *)
(* conditional-create, overwrite, read and delete.                         *)
(***************************************************************************)
EXTENDS Integers, Sequences, FiniteSets, TLC

\* ---------------------------------------------------------------- bounds
MaxTime == 1
MaxHandles == 3
MaxHierHandles == 4
MaxTextLen == 4
MaxBatch == 2
MaxBatchTextLen == 3
MaxTieTextLen == 5
MaxScopedOps == 2
MaxWriterCalls == 4

\* ------------------------------------------------------------ input sets
Procs == {"p1", "p2", "p3"}
DocIds == {"d1", "d2"}
LockDocs == {"d1"}
ExitKinds == {"normal", "return", "raise"}
Suffixes == {<<"b">>}
RedlineEdits ==
    {[kind |-> "range", start |-> 0, end |-> 1, replacement |-> <<"c">>],
     [kind |-> "target", target_text |-> <<"a">>, occurrence |-> 1,
      replacement |-> <<"c", "a">>]}
\* lock_document(document_id, lock_timeout=300), in ticks of 300 s
DefaultLockTimeout == 1
\* the id lists handed to lock_hierarchy
IdLists == {<<"d1">>, <<"d2">>, <<"d1", "d2">>, <<"d2", "d1">>, <<"d1", "d1">>}
\* the lock_timeout values handed to lock_hierarchy, in ticks
HierTimeouts == {0, DefaultLockTimeout}
\* the HierarchicalLock instances (one per GCSDocumentStore): the contexts
\* p1 and p2 are threads that share one, p3 runs with one of its own
Coordinators == {"s1", "s2"}
CoordOf == [p \in Procs |-> IF p = "p3" THEN "s2" ELSE "s1"]
\* the one context of the runs without concurrent operations
SoloProcs == {"p1"}
\* the contexts that run while store calls fail
FailProcs == {"p1", "p2"}
\* str comparison of the ids, as sorted() uses it: "d1" < "d2"
IdRank == [d \in DocIds |-> IF d = "d1" THEN 1 ELSE 2]
\* inputs of TextReplacer.apply_changes: texts over a two-letter alphabet,
\* replacements, target texts (one of them overlapping itself)
Alphabet == {"a", "b"}
TextsUpTo(n) == UNION {[1 .. k -> Alphabet] : k \in 0 .. n}
Replacements == {<<>>, <<"c">>, <<"c", "c">>}
Targets == {<<"a">>, <<"a", "a">>, <<"a", "b">>}
RangeChange(s, e, r) == [kind |-> "range", start |-> s, end |-> e, replacement |-> r]
TargetChange(t, k, r) ==
    [kind |-> "target", target_text |-> t, occurrence |-> k, replacement |-> r]
\* every single change, valid or not, up to the text bound
SingleChanges ==
    {RangeChange(s, e, r) : s \in -1 .. MaxTextLen + 1, e \in -1 .. MaxTextLen + 1,
                            r \in Replacements}
    \cup {TargetChange(t, k, r) : t \in Targets, k \in 0 .. MaxTextLen,
                                  r \in Replacements}
\* the changes batches are made of: replacements, insertions, deletions,
\* ranges out of bounds or reversed, targets with a missing or zero occurrence
BatchChanges ==
    {RangeChange(0, 1, <<"c">>), RangeChange(1, 2, <<>>),
     RangeChange(2, 3, <<"c", "c">>), RangeChange(1, 1, <<"c">>),
     RangeChange(2, 2, <<"c", "c">>), RangeChange(0, 3, <<"c">>),
     RangeChange(2, 1, <<"c">>), RangeChange(-1, 1, <<"c">>),
     TargetChange(<<"a">>, 1, <<"c">>), TargetChange(<<"a">>, 2, <<>>),
     TargetChange(<<"a">>, 1, <<"c", "c">>), TargetChange(<<"a", "a">>, 1, <<"c">>),
     TargetChange(<<"a", "a">>, 2, <<"c">>), TargetChange(<<"a", "b">>, 1, <<"c", "c">>),
     TargetChange(<<"a">>, 0, <<"c">>), TargetChange(<<"b">>, 3, <<"c">>)}
Batches == UNION {[1 .. k -> BatchChanges] : k \in 0 .. MaxBatch}
\* batches of two target changes on one occurrence of one target, as in
\* test_multiple_changes; the replacements include one letter of the texts
TieBatches ==
    LET reps == {<<>>, <<"a">>, <<"c">>}
    IN {<<TargetChange(t, k, r1), TargetChange(t, k, r2)>> :
           t \in Targets, k \in 1 .. 2, r1 \in reps, r2 \in reps}
\* lock_timeout of the handles a context constructs, in ticks
TimeoutOf == [p \in Procs |-> IF p = "p1" THEN 0 ELSE 1]

VARIABLES
    now,        \* datetime.now(timezone.utc), in ticks
    locks,      \* object store, prefix locks/ : one lock record per id
    docs,       \* object store, prefix documents/ : one document per id
    made,       \* handles each context has constructed so far (uuid.uuid4())
    pc,         \* position of every execution context
    op,         \* the operation a context is running
    h,          \* the DocumentLock handle of the context
    loc,        \* locals of the running call: existing_data, document, ...
    local_locks, \* HierarchicalLock._local_locks of every coordinator
    res,        \* the result the running operation is about to report
    ev,         \* what the step just taken returned or wrote (observation)
    succ        \* per id, the operations that reported a successful mutation

vars == <<now, locks, docs, made, pc, op, h, loc, local_locks, res, ev, succ>>

\* ---------------------------------------------------------------- values
NoRec == [kind |-> "none"]
CorruptRec == [kind |-> "corrupt"]
NoDoc == [kind |-> "none"]
NoOp == [kind |-> "none", doc |-> "d1"]
NoHandle == [lock_id |-> <<"p1", 0>>, timeout |-> 0, lock_acquired |-> FALSE,
             lock_blob |-> FALSE, doc |-> "d1"]
NoLoc == [existing |-> NoRec, read_at |-> 0, exit |-> "none", document |-> NoDoc]
NoEv == [kind |-> "none"]
Unreadable == [kind |-> "error"]

RECURSIVE Sum(_, _)
Sum(f, S) == IF S = {} THEN 0
             ELSE LET x == CHOOSE y \in S : TRUE IN f[x] + Sum(f, S \ {x})

\* lock_data of acquire() and _steal_lock()
LockData(hd) ==
    [kind |-> "rec", lock_id |-> hd.lock_id, timestamp |-> now,
     timeout |-> hd.timeout]

\* DocumentLock.__init__: self.lock_id = str(uuid.uuid4()), a value no other
\* handle has
NewHandle(p, n, d, t) ==
    [lock_id |-> <<p, n>>, timeout |-> t, lock_acquired |-> FALSE,
     lock_blob |-> FALSE, doc |-> d]

\* (variant: an upload without the generation precondition)
CreateAllowedAlways(d) == TRUE
\* if_generation_match=0: the upload creates the blob only if none exists
CreateAllowed(d) == locks[d].kind = "none"

\* (variants: the age tested against the contender's timeout; with >=)
IsExpiredOwnTimeout(rec, hd) == now - rec.timestamp > hd.timeout
IsExpiredInclusive(rec, hd) == now - rec.timestamp >= rec.timeout
\* now - lock_time > timedelta(seconds=existing_data['timeout'])
IsExpired(rec, hd) == now - rec.timestamp > rec.timeout

\* existing_data.get('lock_id') == self.lock_id
OwnsRecord(rec, hd) == rec.kind = "rec" /\ rec.lock_id = hd.lock_id

\* ------------------------------------------------------- TextReplacer
\* Texts are sequences of characters; offsets are 0-based as in Python.
\* A change is [kind |-> "target", target_text, occurrence, replacement] or
\* [kind |-> "range", start, end, replacement], operation 'replace'.
Minimum(S) == CHOOSE x \in S : \A y \in S : x <= y

\* text[a:b] for 0 <= a <= b <= len(text)
Slice(text, a, b) == SubSeq(text, a + 1, b)

\* str.find(target, start): lowest offset >= start of a match, else -1
Find(text, target, start) ==
    LET cands == {i \in start .. (Len(text) - Len(target)) :
                     Slice(text, i, i + Len(target)) = target}
    IN IF cands = {} THEN -1 ELSE Minimum(cands)

\* the loop "for i in range(occurrence): pos = text.find(target_text, start);
\* start = pos + 1" with k rounds left
RECURSIVE ScanOccurrence(_, _, _, _)
ScanOccurrence(text, target_text, start, k) ==
    LET pos == Find(text, target_text, start)
    IN IF pos = -1 THEN -1
       ELSE IF k = 1 THEN pos
       ELSE ScanOccurrence(text, target_text, pos + 1, k - 1)

\* (variant: a target that is not found taken to stand at the start)
FindTargetOrStart(text, change) ==
    LET pos == ScanOccurrence(text, change.target_text, 0, change.occurrence)
    IN IF change.occurrence < 1 \/ pos = -1 THEN 0 ELSE pos
\* (variant: an occurrence below 1 taken as the first)
FindFirstIfBelowOne(text, change) ==
    ScanOccurrence(text, change.target_text, 0,
                   IF change.occurrence < 1 THEN 1 ELSE change.occurrence)
\* _find_target_position
FindTargetPosition(text, change) ==
    IF change.occurrence < 1 THEN -1
    ELSE ScanOccurrence(text, change.target_text, 0, change.occurrence)

\* (variant: no range check before the sort)
RangeValidAlways(text, change) == TRUE
\* _sort_changes_by_position: "if start >= 0 and end <= len(text) and
\* start <= end"
RangeValid(text, change) ==
    change.start >= 0 /\ change.end <= Len(text) /\ change.start <= change.end

\* _sort_changes_by_position: the position of a change in the original
\* text, -1 for a change that is left out
PositionOf(text, change) ==
    IF change.kind = "target" THEN FindTargetPosition(text, change)
    ELSE IF RangeValid(text, change) THEN change.start ELSE -1

\* (variant: a sort that is not stable, equal positions in reverse batch order)
RECURSIVE InsertBeforeTies(_, _)
InsertBeforeTies(sorted, x) ==
    IF sorted = <<>> THEN <<x>>
    ELSE LET last == sorted[Len(sorted)]
         IN IF last[1] < x[1] THEN Append(sorted, x)
            ELSE Append(InsertBeforeTies(SubSeq(sorted, 1, Len(sorted) - 1), x), last)
\* list.sort(key=lambda x: x[0]): stable, ascending by position
RECURSIVE InsertByPosition(_, _)
InsertByPosition(sorted, x) ==
    IF sorted = <<>> THEN <<x>>
    ELSE LET last == sorted[Len(sorted)]
         IN IF last[1] <= x[1] THEN Append(sorted, x)
            ELSE Append(InsertByPosition(SubSeq(sorted, 1, Len(sorted) - 1), x), last)

\* (variant: the pairs left in batch order)
KeepOrder(pairs) == pairs
RECURSIVE SortPairs(_)
SortPairs(pairs) ==
    IF pairs = <<>> THEN <<>>
    ELSE InsertByPosition(SortPairs(SubSeq(pairs, 1, Len(pairs) - 1)), pairs[Len(pairs)])

\* _sort_changes_by_position
SortChangesByPosition(text, changes) ==
    LET kept == SelectSeq([i \in 1 .. Len(changes) |->
                              <<PositionOf(text, changes[i]), changes[i]>>],
                          LAMBDA pr : pr[1] >= 0)
        sorted == SortPairs(kept)
    IN [i \in 1 .. Len(sorted) |-> sorted[i][2]]

\* _replace_by_target, on the text as it is when the change is applied
ReplaceByTarget(text, change) ==
    LET pos == FindTargetPosition(text, change)
    IN IF pos = -1 THEN text
       ELSE Slice(text, 0, pos) \o change.replacement
            \o Slice(text, pos + Len(change.target_text), Len(text))

\* (variant: end taken as the last offset replaced)
ReplaceByRangeInclusive(text, change) ==
    IF change.start < 0 \/ change.end > Len(text) \/ change.start > change.end
    THEN text
    ELSE SubSeq(text, 1, change.start) \o change.replacement
         \o SubSeq(text, change.end + 2, Len(text))
\* _replace_by_range, on the text as it is when the change is applied
ReplaceByRange(text, change) ==
    IF change.start < 0 \/ change.end > Len(text) \/ change.start > change.end
    THEN text
    ELSE Slice(text, 0, change.start) \o change.replacement
         \o Slice(text, change.end, Len(text))

\* _apply_single_change
ApplySingleChange(text, change) ==
    IF change.kind = "target" THEN ReplaceByTarget(text, change)
    ELSE ReplaceByRange(text, change)

\* "for change in reversed(sorted_changes): result = ..."
RECURSIVE ApplyReversed(_, _)
ApplyReversed(text, sorted) ==
    IF sorted = <<>> THEN text
    ELSE ApplyReversed(ApplySingleChange(text, sorted[Len(sorted)]),
                       SubSeq(sorted, 1, Len(sorted) - 1))

\* apply_changes
ApplyChanges(text, changes) ==
    ApplyReversed(text, SortChangesByPosition(text, changes))

\* ------------------------------------------------------------------ Init
Init ==
    /\ now = 0
    /\ locks = [d \in DocIds |-> NoRec]
    /\ docs = [d \in DocIds |->
                 IF d = "d1"
                 THEN [kind |-> "doc", title |-> "t", text |-> <<"a">>, version |-> 1]
                 ELSE NoDoc]
    /\ made = [p \in Procs |-> 0]
    /\ pc = [p \in Procs |-> "idle"]
    /\ op = [p \in Procs |-> NoOp]
    /\ h = [p \in Procs |-> NoHandle]
    /\ loc = [p \in Procs |-> NoLoc]
    /\ local_locks = [c \in Coordinators |-> {}]
    /\ res = [p \in Procs |-> "none"]
    /\ ev = NoEv
    /\ succ = [d \in DocIds |-> 0]

\* ------------------------------------------------- DocumentLock.acquire
\* HierarchicalLock.lock_document: lock = DocumentLock(bucket, id, timeout),
\* then lock.acquire() is entered.
EnterWithin(p, o, t, handles) ==
    /\ pc[p] = "idle"
    /\ Sum(made, Procs) < handles
    /\ op' = [op EXCEPT ![p] = o]
    /\ h' = [h EXCEPT ![p] = NewHandle(p, made[p] + 1, o.doc, t)]
    /\ made' = [made EXCEPT ![p] = @ + 1]
    /\ pc' = [pc EXCEPT ![p] = "acq_create"]
    /\ ev' = NoEv
    /\ UNCHANGED <<now, locks, docs, loc, local_locks, res, succ>>

Enter(p, o, t) == EnterWithin(p, o, t, MaxHandles)

\* a bare lock_document scope around an arbitrary body
BeginScope(p) ==
    \E d \in LockDocs : Enter(p, [kind |-> "scope", doc |-> d], TimeoutOf[p])

\* lock = DocumentLock(bucket, id, timeout); lock.acquire() on any id
BeginAcquire(p) ==
    \E d \in DocIds : Enter(p, [kind |-> "scope", doc |-> d], TimeoutOf[p])

\* (variant: a refused lock reported like a missing document)
AcquireFailedAsNotFound(o) ==
    IF o.kind \in {"redline", "batch"} THEN "skipped:not_found"
    ELSE IF o.kind = "get" THEN "absent" ELSE "not_found"
\* what the operation reports when lock.acquire() returned False:
\* lock_document raises RuntimeError (its finally runs release(), which does
\* nothing on a handle that is not held); the redline loop catches it and
\* records the request as skipped.
AcquireFailedResult(o) ==
    IF o.kind \in {"redline", "batch"} THEN "skipped:processing_error"
    ELSE "lock_unavailable"

\* ------------------------------------ HierarchicalLock.lock_hierarchy
\* document_ids = sorted(document_ids): insertion into an ascending list,
\* equal ids kept
RECURSIVE InsertId(_, _)
InsertId(sorted, d) ==
    IF sorted = <<>> THEN <<d>>
    ELSE LET last == sorted[Len(sorted)]
         IN IF IdRank[last] <= IdRank[d] THEN Append(sorted, d)
            ELSE Append(InsertId(SubSeq(sorted, 1, Len(sorted) - 1), d), last)

RECURSIVE SortIds(_)
SortIds(ids) ==
    IF ids = <<>> THEN <<>>
    ELSE InsertId(SortIds(SubSeq(ids, 1, Len(ids) - 1)), ids[Len(ids)])

\* (variant: the list taken in the caller's order)
InputOrder(ids) == ids
\* "document_ids = sorted(document_ids)"
AcquireOrder(ids) == SortIds(ids)

\* (variant: the loop tries the same list entry again)
SameEntry(i) == i
\* "for doc_id in document_ids": the entry after entry i
NextEntry(i) == i + 1

\* (variant: loops that release nothing)
ReleasesNone(got, from) == 0
\* "for lock in locks: lock.release()": the first handle at or after
\* position from on which release() has work to do (release() returns at
\* once on a handle that is not held), 0 if there is none
NextHeld(got, from) ==
    LET cands == {k \in from .. Len(got) : got[k].lock_acquired}
    IN IF cands = {} THEN 0 ELSE Minimum(cands)

\* the call goes on to release handle number k of its list `got` in the
\* given loop, or, with k = 0, is over; errs are the lock_ids of the handles
\* whose release() swallowed a store error
HierRelease(p, got, k, phase, failed, ran, r, errs) ==
    /\ op' = [op EXCEPT ![p].got = got, ![p].phase = IF k = 0 THEN "done" ELSE phase,
                        ![p].failed = failed, ![p].ran = ran, ![p].result = r,
                        ![p].errs = errs]
    /\ h' = [h EXCEPT ![p] = IF k = 0 THEN NoHandle ELSE got[k]]
    /\ pc' = [pc EXCEPT ![p] = IF k = 0 THEN "hdone" ELSE "rel_read"]

\* lock.acquire() of the loop returned. True: locks.append(lock), then the
\* next entry's handle is constructed and acquired, or, after the last entry,
\* "yield locks". False: "for acquired_lock in locks: acquired_lock.release()",
\* then RuntimeError naming doc_id, then the finally loop over locks.
HierAcquireReturns(p, out, held) ==
    LET o == op[p]
        got == Append(o.got, [h[p] EXCEPT !.lock_blob = TRUE, !.lock_acquired = TRUE])
    IN IF out \in {"created", "stolen"}
       THEN IF o.i < Len(o.ids)
            THEN LET n == NextEntry(o.i)
                 IN /\ op' = [op EXCEPT ![p].got = got, ![p].i = n,
                                        ![p].doc = o.ids[n],
                                        ![p].tried = Append(@, o.ids[n])]
                    /\ h' = [h EXCEPT ![p] = NewHandle(p, o.base + Len(o.tried) + 1,
                                                       o.ids[n], h[p].timeout)]
                    /\ pc' = [pc EXCEPT ![p] = "acq_create"]
            ELSE /\ op' = [op EXCEPT ![p].got = got, ![p].phase = "body"]
                 /\ h' = [h EXCEPT ![p] = NoHandle]
                 /\ pc' = [pc EXCEPT ![p] = "hbody"]
       ELSE LET k == NextHeld(o.got, 1)
                r == IF out = "raised" THEN "error" ELSE "lock_unavailable"
            IN IF k # 0
               THEN HierRelease(p, o.got, k, "rollback", o.ids[o.i], FALSE, r, o.errs)
               ELSE HierRelease(p, o.got, 0, "done", o.ids[o.i], FALSE, r, o.errs)

\* (variant: the loop ends at the first request that is skipped)
BatchStopsAtSkip(p, skipped) ==
    /\ h' = [h EXCEPT ![p] = NoHandle]
    /\ IF op[p].rest = <<>> \/ skipped # op[p].skipped
       THEN /\ op' = [op EXCEPT ![p] = [op[p] EXCEPT !.skipped = skipped]]
            /\ pc' = [pc EXCEPT ![p] = "rl_done"]
       ELSE /\ op' = [op EXCEPT ![p] =
                         [op[p] EXCEPT !.skipped = skipped,
                                       !.doc = Head(op[p].rest).doc,
                                       !.edit = Head(op[p].rest).edit,
                                       !.rest = Tail(op[p].rest),
                                       !.i = @ + 1]]
            /\ pc' = [pc EXCEPT ![p] = "rl_exists"]
\* the redline loop of main.py goes on after one request: "continue", the
\* end of the loop body, or the except clause that records the request as
\* skipped; skipped is the list of skipped requests it has by then
BatchNext(p, skipped) ==
    LET o == op[p]
    IN /\ h' = [h EXCEPT ![p] = NoHandle]
       /\ IF o.rest = <<>>
          THEN /\ op' = [op EXCEPT ![p] = [o EXCEPT !.skipped = skipped]]
               /\ pc' = [pc EXCEPT ![p] = "rl_done"]
          ELSE /\ op' = [op EXCEPT ![p] =
                            [o EXCEPT !.skipped = skipped,
                                      !.doc = Head(o.rest).doc,
                                      !.edit = Head(o.rest).edit,
                                      !.rest = Tail(o.rest),
                                      !.i = @ + 1]]
               /\ pc' = [pc EXCEPT ![p] = "rl_exists"]

\* (variant: a request that failed while being processed is not recorded)
SkippedOnlyNotFound(o, outcome) ==
    IF outcome = "skipped:not_found"
    THEN Append(o.skipped, [document |-> o.doc, reason |-> "not_found"])
    ELSE o.skipped
\* skipped.append(SkippedDocument(document=..., reason=...)) for an outcome
\* "skipped:<reason>"; a request that succeeded adds nothing to the list
SkippedWith(o, outcome) ==
    IF outcome = "skipped:not_found"
    THEN Append(o.skipped, [document |-> o.doc, reason |-> "not_found"])
    ELSE IF outcome = "ok" THEN o.skipped
    ELSE Append(o.skipped, [document |-> o.doc, reason |-> "processing_error"])

\* (variant: the body entered whatever acquire() returned)
EntersBodyAlways(out) == TRUE
\* "if lock.acquire(): ... yield lock / else: raise RuntimeError"
EntersBody(out) == out \in {"created", "stolen"}

\* the body of the scope of operation o starts once acquire() is over with
\* out. DocumentLock.__enter__: "self.acquire(); return self", the value
\* acquire() returned is dropped; lock_document tests it.
EntersScope(o, out) ==
    IF o.kind = "direct" THEN out # "raised" ELSE EntersBody(out)

\* the ids of the handles number a to b of the list got
DocsOf(got, a, b) == {got[i].doc : i \in a .. b}

\* _local_locks of the coordinator of p once acquire() has returned out.
\* lock_document: "self._local_locks.add(document_id)" before the yield;
\* otherwise RuntimeError and, in the finally, "lock.release();
\* self._local_locks.discard(document_id)". lock_hierarchy: add(doc_id) after
\* locks.append; on a refusal the rollback loop discards the id of every
\* handle it passes, and so does the finally loop when the rollback loop
\* has nothing to release.
AfterAcquire(p, out) ==
    LET mine == local_locks[CoordOf[p]]
        got == op[p].got
        k == NextHeld(got, 1)
    IN IF op[p].kind = "hier"
       THEN IF out \in {"created", "stolen"} THEN mine \cup {h[p].doc}
            ELSE IF k # 0 THEN mine \ DocsOf(got, 1, k - 1)
            ELSE mine \ DocsOf(got, 1, Len(got))
       ELSE IF op[p].kind = "direct" THEN mine
       ELSE IF EntersBody(out) THEN mine \cup {h[p].doc}
       ELSE mine \ {h[p].doc}

\* acquire() is over: it returned True (out is "created" or "stolen": the
\* scope's body starts), returned False, or let an exception escape (out is
\* "raised"); in the last two cases the operation ends
AcquireReturns(p, out, existing, read_at) ==
    LET held == IF out \in {"created", "stolen"} THEN TRUE
                ELSE h[p].lock_acquired
    IN /\ ev' = [kind |-> "acquire", p |-> p, doc |-> h[p].doc, out |-> out,
                 lock_id |-> h[p].lock_id, held |-> held,
                 existing |-> existing, read_at |-> read_at,
                 res |-> IF out = "raised" THEN "error"
                         ELSE IF held THEN "none"
                         ELSE AcquireFailedResult(op[p])]
       /\ loc' = [loc EXCEPT ![p] = NoLoc]
       /\ local_locks' = [local_locks EXCEPT ![CoordOf[p]] = AfterAcquire(p, out)]
       /\ IF op[p].kind = "hier" THEN HierAcquireReturns(p, out, held)
          ELSE IF EntersScope(op[p], out)
          THEN /\ pc' = [pc EXCEPT ![p] = "body"]
               /\ h' = [h EXCEPT ![p].lock_blob = TRUE, ![p].lock_acquired = held]
               /\ UNCHANGED op
          ELSE IF op[p].kind = "batch"
          THEN BatchNext(p, SkippedWith(op[p], AcquireFailedResult(op[p])))
          ELSE /\ pc' = [pc EXCEPT ![p] = "idle"]
               /\ h' = [h EXCEPT ![p] = NoHandle]
               /\ op' = [op EXCEPT ![p] = NoOp]

\* acquire(): upload_from_string(..., if_generation_match=0)
AcqCreate(p) ==
    /\ pc[p] = "acq_create"
    /\ IF CreateAllowed(h[p].doc)
       THEN /\ locks' = [locks EXCEPT ![h[p].doc] = LockData(h[p])]
            /\ AcquireReturns(p, "created", NoRec, 0)
       ELSE \* Conflict
            /\ h' = [h EXCEPT ![p].lock_blob = TRUE]
            /\ pc' = [pc EXCEPT ![p] = "acq_read"]
            /\ ev' = NoEv
            /\ UNCHANGED <<locks, op, loc, local_locks>>
    /\ UNCHANGED <<now, docs, made, res, succ>>

\* acquire(): the upload raises something other than Conflict
AcqCreateFail(p) ==
    /\ pc[p] = "acq_create"
    /\ AcquireReturns(p, "create_error", NoRec, 0)
    /\ UNCHANGED <<now, locks, docs, made, res, succ>>

\* (variant: an inner handler for NotFound alone)
InnerCatchesOnlyNotFound(exc) == exc = "NotFound"
\* acquire(), inside "except Conflict": the inner "except Exception" catches
\* whatever reading the existing record raises
InnerCatches(exc) == exc \in {"NotFound", "StorageError", "JSONDecodeError"}

\* acquire(): the existing record was found expired, or reading it raised
\* exc: go on to _steal_lock(), unless exc escapes the handler
GoSteal(p, existing, exc) ==
    IF exc = "none" \/ InnerCatches(exc)
    THEN /\ loc' = [loc EXCEPT ![p].existing = existing, ![p].read_at = now]
         /\ UNCHANGED local_locks
         /\ pc' = [pc EXCEPT ![p] = "acq_steal"]
         /\ ev' = NoEv
         /\ UNCHANGED <<op, h>>
    ELSE AcquireReturns(p, "raised", existing, now)

\* acquire(), except Conflict: download the existing record and test its age
AcqRead(p) ==
    /\ pc[p] = "acq_read"
    /\ LET rec == locks[h[p].doc]
       IN IF rec.kind = "none" THEN GoSteal(p, rec, "NotFound")
          ELSE IF rec.kind = "corrupt" THEN GoSteal(p, rec, "JSONDecodeError")
          ELSE IF IsExpired(rec, h[p]) THEN GoSteal(p, rec, "none")
          ELSE AcquireReturns(p, "refused", rec, now)
    /\ UNCHANGED <<now, locks, docs, made, res, succ>>

\* acquire(), except Conflict: the download itself fails
AcqReadFail(p) ==
    /\ pc[p] = "acq_read"
    /\ GoSteal(p, Unreadable, "StorageError")
    /\ UNCHANGED <<now, locks, docs, made, res, succ>>

\* (variant: the overwrite made only if the record is still the one read)
AcqStealIfUnchanged(p) ==
    /\ pc[p] = "acq_steal"
    /\ IF locks[h[p].doc] = loc[p].existing
       THEN /\ locks' = [locks EXCEPT ![h[p].doc] = LockData(h[p])]
            /\ AcquireReturns(p, "stolen", loc[p].existing, loc[p].read_at)
       ELSE /\ AcquireReturns(p, "refused", loc[p].existing, loc[p].read_at)
            /\ UNCHANGED locks
    /\ UNCHANGED <<now, docs, made, res, succ>>
\* _steal_lock(): unconditional upload_from_string
AcqSteal(p) ==
    /\ pc[p] = "acq_steal"
    /\ locks' = [locks EXCEPT ![h[p].doc] = LockData(h[p])]
    /\ AcquireReturns(p, "stolen", loc[p].existing, loc[p].read_at)
    /\ UNCHANGED <<now, docs, made, res, succ>>

\* _steal_lock(): the upload fails
AcqStealFail(p) ==
    /\ pc[p] = "acq_steal"
    /\ AcquireReturns(p, "steal_error", loc[p].existing, loc[p].read_at)
    /\ UNCHANGED <<now, locks, docs, made, res, succ>>

\* ------------------------------------------------- DocumentLock.release
\* release(): "except Exception" swallows whatever the store calls raise
Swallows(exc) == exc \in {"NotFound", "StorageError", "JSONDecodeError"}

\* (variant: the flag cleared on the normal path only)
ClearsHeldUnlessError(exc) == exc = "none"
\* release(): "finally: self.lock_acquired = False"
ClearsHeld(exc) == TRUE

\* append returns True / the redline loop appends to results: one more
\* operation has reported a successful mutation of the document
Reported(p, r) ==
    succ' = [succ EXCEPT ![op[p].doc] =
                IF r = "ok" /\ op[p].kind \in {"append", "redline"}
                THEN @ + 1 ELSE @]

\* release() of one of the two loops returned: the loop goes on with the next
\* handle; after the rollback loop the finally loop runs over the same list
HierReleaseReturns(p, exc) ==
    LET o == op[p]
        j == CHOOSE k \in 1 .. Len(o.got) : o.got[k].lock_id = h[p].lock_id
        got == [o.got EXCEPT ![j].lock_acquired =
                   IF ClearsHeld(exc) THEN FALSE ELSE @]
        k == NextHeld(got, j + 1)
        r == IF exc # "none" /\ ~Swallows(exc) THEN "error" ELSE o.result
        errs == IF exc = "StorageError" THEN o.errs \cup {h[p].lock_id} ELSE o.errs
    IN IF k # 0 THEN HierRelease(p, got, k, o.phase, o.failed, o.ran, r, errs)
       ELSE IF o.phase = "rollback"
       THEN HierRelease(p, got, NextHeld(got, 1), "final", o.failed, o.ran, r, errs)
       ELSE HierRelease(p, got, 0, "done", o.failed, o.ran, r, errs)

\* _local_locks of the coordinator of p once release() has returned:
\* "self._local_locks.discard(...)" follows every release() of
\* lock_document's finally and of the two loops of lock_hierarchy, the
\* releases that have nothing to do included
AfterRelease(p, exc) ==
    LET mine == local_locks[CoordOf[p]]
        got == op[p].got
        j == CHOOSE i \in 1 .. Len(got) : got[i].lock_id = h[p].lock_id
        k == NextHeld([got EXCEPT ![j].lock_acquired =
                          IF ClearsHeld(exc) THEN FALSE ELSE @], j + 1)
    IN IF op[p].kind = "hier"
       THEN IF k # 0 THEN mine \ DocsOf(got, j, k - 1)
            ELSE IF op[p].phase = "rollback"
            THEN mine \ DocsOf(got, 1, Len(got))
            ELSE mine \ DocsOf(got, j, Len(got))
       ELSE IF op[p].kind = "direct" THEN mine
       ELSE IF exc # "none" /\ ~Swallows(exc) THEN mine
       ELSE mine \ {h[p].doc}

\* release() is over, having removed record `removed` (NoRec: nothing) and
\* with exception exc pending ("none": no exception); lock_document's finally
\* goes on to _local_locks.discard and the operation ends with its result
ReleaseReturns(p, out, exc, removed) ==
    LET raised == exc # "none" /\ ~Swallows(exc)
        held == IF ClearsHeld(exc) THEN FALSE ELSE h[p].lock_acquired
    IN /\ ev' = [kind |-> "release", p |-> p, doc |-> h[p].doc, out |-> out,
                 lock_id |-> h[p].lock_id, removed |-> removed,
                 exit |-> loc[p].exit, raised |-> raised, held |-> held,
                 res |-> IF raised THEN "error" ELSE res[p]]
       /\ loc' = [loc EXCEPT ![p] = NoLoc]
       /\ local_locks' = [local_locks EXCEPT ![CoordOf[p]] = AfterRelease(p, exc)]
       /\ IF op[p].kind = "hier"
          THEN /\ HierReleaseReturns(p, exc)
               /\ UNCHANGED <<res, succ>>
          ELSE IF op[p].kind = "batch"
          THEN /\ BatchNext(p, SkippedWith(op[p], IF raised
                                                  THEN "skipped:processing_error"
                                                  ELSE res[p]))
               /\ res' = [res EXCEPT ![p] = "none"]
               /\ UNCHANGED succ
          ELSE /\ Reported(p, IF raised THEN "error" ELSE res[p])
               /\ pc' = [pc EXCEPT ![p] = "idle"]
               /\ h' = [h EXCEPT ![p] = NoHandle]
               /\ op' = [op EXCEPT ![p] = NoOp]
               /\ res' = [res EXCEPT ![p] = "none"]

\* release(): json.loads(self.lock_blob.download_as_text()), lock_id test
RelRead(p) ==
    /\ pc[p] = "rel_read"
    /\ h[p].lock_acquired /\ h[p].lock_blob
    /\ LET rec == locks[h[p].doc]
       IN IF rec.kind = "none"
          THEN ReleaseReturns(p, "absent", "NotFound", NoRec)
          ELSE IF rec.kind = "corrupt"
          THEN ReleaseReturns(p, "corrupt", "JSONDecodeError", NoRec)
          ELSE IF OwnsRecord(rec, h[p])
          THEN /\ pc' = [pc EXCEPT ![p] = "rel_delete"]
               /\ ev' = NoEv
               /\ UNCHANGED <<h, op, loc, local_locks, res, succ>>
          ELSE ReleaseReturns(p, "not_ours", "none", NoRec)
    /\ UNCHANGED <<now, locks, docs, made>>

\* release(): the download fails
RelReadFail(p) ==
    /\ pc[p] = "rel_read"
    /\ h[p].lock_acquired /\ h[p].lock_blob
    /\ ReleaseReturns(p, "read_error", "StorageError", NoRec)
    /\ UNCHANGED <<now, locks, docs, made>>

\* release() of a handle that is not held: "if self.lock_acquired and
\* self.lock_blob" is false and nothing is done
RelNotHeld(p) ==
    /\ pc[p] = "rel_read"
    /\ ~(h[p].lock_acquired /\ h[p].lock_blob)
    /\ ReleaseReturns(p, "not_held", "none", NoRec)
    /\ UNCHANGED <<now, locks, docs, made>>

\* release(): self.lock_blob.delete()
RelDelete(p) ==
    /\ pc[p] = "rel_delete"
    /\ LET rec == locks[h[p].doc]
       IN IF rec.kind = "none"
          THEN /\ ReleaseReturns(p, "delete_absent", "NotFound", NoRec)
               /\ UNCHANGED locks
          ELSE /\ locks' = [locks EXCEPT ![h[p].doc] = NoRec]
               /\ ReleaseReturns(p, "deleted", "none", rec)
    /\ UNCHANGED <<now, docs, made>>

\* release(): the delete fails
RelDeleteFail(p) ==
    /\ pc[p] = "rel_delete"
    /\ ReleaseReturns(p, "delete_error", "StorageError", NoRec)
    /\ UNCHANGED <<now, locks, docs, made>>

\* ------------------------------------- HierarchicalLock.lock_document
\* (variant: release() after the yield, without try / finally)
ReleasesOnNormalExitOnly(how) == how # "raise"
\* "try: ... yield lock ... finally: lock.release()": the scope is left
\* through release() however the body ended
ReleasesOnExit(how) == TRUE

\* the body of the scope ends (falls off its end, returns early or raises)
\* with result r, its last step observed as e
\* (o is the operation's record as the body leaves it)
LeaveBodyWith(p, how, r, e, o) ==
    /\ pc[p] \in {"body", "save", "del_lock"}
    /\ IF ReleasesOnExit(how)
       THEN /\ pc' = [pc EXCEPT ![p] = "rel_read"]
            /\ loc' = [loc EXCEPT ![p].exit = how, ![p].document = NoDoc]
            /\ UNCHANGED local_locks
            /\ res' = [res EXCEPT ![p] = r]
            /\ ev' = e
            /\ op' = [op EXCEPT ![p] = o]
            /\ UNCHANGED <<h, succ>>
       ELSE \* the scope is left with the handle still held
            /\ pc' = [pc EXCEPT ![p] = "idle"]
            /\ ev' = [kind |-> "left", p |-> p, doc |-> h[p].doc,
                      lock_id |-> h[p].lock_id, exit |-> how, res |-> r]
            /\ Reported(p, r)
            /\ h' = [h EXCEPT ![p] = NoHandle]
            /\ op' = [op EXCEPT ![p] = NoOp]
            /\ loc' = [loc EXCEPT ![p] = NoLoc]
            /\ UNCHANGED local_locks
            /\ UNCHANGED res

LeaveBody(p, how, r, e) == LeaveBodyWith(p, how, r, e, op[p])

ScopeBody(p) ==
    /\ pc[p] = "body"
    /\ op[p].kind = "scope"
    /\ \E how \in ExitKinds :
         LeaveBody(p, how, IF how = "raise" THEN "error" ELSE "ok", NoEv)
    /\ UNCHANGED <<now, locks, docs, made>>

\* "with DocumentLock(bucket, id, timeout): ...": the handle itself as the
\* scope; __enter__ calls acquire()
BeginDirect(p) ==
    \E d \in LockDocs : Enter(p, [kind |-> "direct", doc |-> d], TimeoutOf[p])

\* the body of the with statement; __exit__ calls release()
DirectBody(p) ==
    /\ pc[p] = "body"
    /\ op[p].kind = "direct"
    /\ \E how \in ExitKinds :
         LeaveBody(p, how, IF how = "raise" THEN "error" ELSE "ok", NoEv)
    /\ UNCHANGED <<now, locks, docs, made>>

\* lock_hierarchy(document_ids, lock_timeout): the list is sorted and the
\* first entry's handle is constructed and acquired
BeginHierarchyWith(p, lock_timeout) ==
    /\ pc[p] = "idle"
    /\ \E input \in IdLists :
         LET ids == AcquireOrder(input)
         IN /\ Sum(made, Procs) + Len(ids) <= MaxHierHandles
            /\ op' = [op EXCEPT ![p] =
                         [kind |-> "hier", doc |-> ids[1], input |-> input,
                          ids |-> ids, i |-> 1, base |-> made[p],
                          tried |-> <<ids[1]>>, got |-> <<>>, phase |-> "acquire",
                          failed |-> "none", ran |-> FALSE,
                          result |-> "none", errs |-> {}]]
            /\ h' = [h EXCEPT ![p] =
                        NewHandle(p, made[p] + 1, ids[1], lock_timeout)]
            /\ made' = [made EXCEPT ![p] = @ + Len(ids)]
    /\ pc' = [pc EXCEPT ![p] = "acq_create"]
    /\ ev' = NoEv
    /\ UNCHANGED <<now, locks, docs, loc, local_locks, res, succ>>

\* lock_hierarchy(document_ids), lock_timeout=300 as batch_save calls it
BeginHierarchy(p) == BeginHierarchyWith(p, DefaultLockTimeout)

\* lock_hierarchy(document_ids, lock_timeout) with a timeout of the caller
BeginHierarchyTimed(p) ==
    \E lock_timeout \in HierTimeouts : BeginHierarchyWith(p, lock_timeout)

\* the body under "yield locks" ends; the finally loop starts
HierBody(p) ==
    /\ pc[p] = "hbody"
    /\ \E how \in ExitKinds :
         /\ HierRelease(p, op[p].got, NextHeld(op[p].got, 1), "final", "none",
                        TRUE, IF how = "raise" THEN "error" ELSE "ok", op[p].errs)
         /\ ev' = [kind |-> "hier_left", p |-> p, exit |-> how]
    /\ UNCHANGED <<now, locks, docs, made, loc, local_locks, res, succ>>

\* the lock_hierarchy call is over and the caller goes on
HierReturn(p) ==
    /\ pc[p] = "hdone"
    /\ pc' = [pc EXCEPT ![p] = "idle"]
    /\ op' = [op EXCEPT ![p] = NoOp]
    /\ ev' = NoEv
    /\ UNCHANGED <<now, locks, docs, made, h, loc, local_locks, res, succ>>

\* --------------------------------------------------- GCSDocumentStore
\* main.create_document: Document(id=uuid4, version=1, ...) then
\* document_store.save(document); the id is one no document has
BeginCreate(p) ==
    \E d \in DocIds :
        /\ docs[d].kind = "none"
        /\ \A q \in Procs : ~(op[q].kind = "create" /\ op[q].doc = d)
        /\ Enter(p, [kind |-> "create", doc |-> d, text |-> <<"a">>],
                 DefaultLockTimeout)

\* GCSDocumentStore.append(doc_id, text_to_append); the call is entered with
\* a lock blob for the id in the store (locked) or without one
BeginAppend(p) ==
    \E d \in DocIds, sfx \in Suffixes :
        Enter(p, [kind |-> "append", doc |-> d, suffix |-> sfx,
                  locked |-> locks[d].kind # "none"], DefaultLockTimeout)

\* one request of redline_documents_by_range / redline_documents_by_target
BeginRedline(p) ==
    /\ pc[p] = "idle"
    /\ Sum(made, Procs) < MaxHandles
    /\ \E d \in DocIds, e \in RedlineEdits :
           op' = [op EXCEPT ![p] = [kind |-> "redline", doc |-> d, edit |-> e]]
    /\ made' = [made EXCEPT ![p] = @ + 1]
    /\ pc' = [pc EXCEPT ![p] = "rl_exists"]
    /\ ev' = NoEv
    /\ UNCHANGED <<now, locks, docs, h, loc, local_locks, res, succ>>

\* the number of the handle the request at hand constructs
RequestHandleNo(p) ==
    IF op[p].kind = "batch" THEN op[p].base + op[p].i ELSE made[p]

\* the requests of a batch: (document_id, edit) pairs
RedlineRequests == {[doc |-> d, edit |-> e] : d \in DocIds, e \in RedlineEdits}

\* redline_documents_by_range / _by_target on a batch of one or two
\* requests: results = [], skipped = [], and the first request is at hand
BeginBatch(p) ==
    /\ pc[p] = "idle"
    /\ \E n \in 1 .. 2 : \E reqs \in [1 .. n -> RedlineRequests] :
          /\ Sum(made, Procs) + n <= MaxHandles
          /\ op' = [op EXCEPT ![p] =
                       [kind |-> "batch", doc |-> reqs[1].doc,
                        edit |-> reqs[1].edit, rest |-> Tail(reqs),
                        reqs |-> reqs, i |-> 1, base |-> made[p],
                        results |-> <<>>, skipped |-> <<>>]]
          /\ made' = [made EXCEPT ![p] = @ + n]
    /\ pc' = [pc EXCEPT ![p] = "rl_exists"]
    /\ ev' = NoEv
    /\ UNCHANGED <<now, locks, docs, h, loc, local_locks, res, succ>>

\* return RedlineResponse(documents=results, skipped=skipped)
RedlineReturn(p) ==
    /\ pc[p] = "rl_done"
    /\ ev' = [kind |-> "response", p |-> p, reqs |-> op[p].reqs,
              results |-> op[p].results, skipped |-> op[p].skipped]
    /\ pc' = [pc EXCEPT ![p] = "idle"]
    /\ op' = [op EXCEPT ![p] = NoOp]
    /\ UNCHANGED <<now, locks, docs, made, h, loc, local_locks, res, succ>>

\* the redline loop: "if not document_store.exists(id): skipped.append(
\* not_found); continue", else lock_document(id) is entered
RedlineExists(p) ==
    /\ pc[p] = "rl_exists"
    /\ IF docs[op[p].doc].kind = "none"
       THEN /\ ev' = [kind |-> "skip", p |-> p, doc |-> op[p].doc,
                      res |-> "skipped:not_found"]
            /\ IF op[p].kind = "batch"
               THEN BatchNext(p, SkippedWith(op[p], "skipped:not_found"))
               ELSE /\ pc' = [pc EXCEPT ![p] = "idle"]
                    /\ op' = [op EXCEPT ![p] = NoOp]
                    /\ UNCHANGED h
       ELSE /\ pc' = [pc EXCEPT ![p] = "acq_create"]
            /\ h' = [h EXCEPT ![p] =
                        NewHandle(p, RequestHandleNo(p), op[p].doc,
                                  DefaultLockTimeout)]
            /\ ev' = NoEv
            /\ UNCHANGED op
    /\ UNCHANGED <<now, locks, docs, made, loc, local_locks, res, succ>>

\* GCSDocumentStore.get(doc_id)
BeginGet(p) ==
    \E d \in DocIds : Enter(p, [kind |-> "get", doc |-> d], DefaultLockTimeout)

\* GCSDocumentStore.delete(doc_id)
BeginDelete(p) ==
    \E d \in DocIds : Enter(p, [kind |-> "delete", doc |-> d], DefaultLockTimeout)

\* (variant: a missing document reported like a failed operation)
NotFoundAsError(o) ==
    IF o.kind \in {"redline", "batch"} THEN "skipped:processing_error" ELSE "error"
\* what get / append / a redline request reports when get_without_lock
\* returned None: get returns None, append returns False, the redline loop
\* records the request as skipped with reason "not_found"
NotFoundResult(o) ==
    IF o.kind \in {"redline", "batch"} THEN "skipped:not_found"
    ELSE IF o.kind = "get" THEN "absent" ELSE "not_found"

\* ... and when a store call of the body raises
ErrorResult(o) ==
    IF o.kind \in {"redline", "batch"} THEN "skipped:processing_error" ELSE "error"

\* get_without_lock(id) in the body of append and of a redline request:
\* "if not document: return False" / "skipped.append(not_found); continue"
DocGet(p) ==
    /\ pc[p] = "body"
    /\ op[p].kind \in {"append", "redline", "batch", "get"}
    /\ IF docs[op[p].doc].kind = "none"
       THEN LeaveBody(p, "return", NotFoundResult(op[p]), NoEv)
       ELSE IF op[p].kind = "get"
       THEN LeaveBody(p, "return", "found", NoEv)
       ELSE /\ loc' = [loc EXCEPT ![p].document = docs[op[p].doc]]
            /\ UNCHANGED local_locks
            /\ pc' = [pc EXCEPT ![p] = "save"]
            /\ ev' = NoEv
            /\ UNCHANGED <<h, op, res, succ>>
    /\ UNCHANGED <<now, locks, docs, made>>

\* get_without_lock(id): download_as_text or json.loads raises something
\* other than NotFound; "except Exception: print(...); return None", and the
\* caller goes on as it does for a missing document
DocGetFail(p) ==
    /\ pc[p] = "body"
    /\ op[p].kind \in {"append", "redline", "batch", "get"}
    /\ LeaveBody(p, "return", NotFoundResult(op[p]),
                 [kind |-> "read_failed", p |-> p, doc |-> op[p].doc,
                  op |-> op[p].kind, existing |-> docs[op[p].doc],
                  res |-> NotFoundResult(op[p])])
    /\ UNCHANGED <<now, locks, docs, made>>

\* (variant: the text saved as it was loaded)
KeepsText(o, document) == document.text
\* the text append / the redline request computes from the loaded document
NewText(o, document) ==
    IF o.kind = "append" THEN document.text \o o.suffix
    ELSE ApplyChanges(document.text, <<o.edit>>)

\* "document.text = ...; document.version += 1; save_without_lock(document)"
DocSave(p) ==
    /\ pc[p] = "save"
    /\ LET d == op[p].doc
           document == [loc[p].document EXCEPT
                           !.text = NewText(op[p], loc[p].document),
                           !.version = @ + 1]
       IN /\ docs' = [docs EXCEPT ![d] = document]
          /\ LeaveBodyWith(p, "normal", "ok",
                           [kind |-> "write", p |-> p, doc |-> d,
                            op |-> op[p].kind, lock_id |-> h[p].lock_id,
                            before |-> docs[d], after |-> document],
                           \* results.append(DocumentSummary(id, version))
                           IF op[p].kind = "batch"
                           THEN [op[p] EXCEPT !.results =
                                   Append(@, [id |-> d,
                                              version |-> document.version])]
                           ELSE op[p])
    /\ UNCHANGED <<now, locks, made>>

\* save_without_lock(document): upload_from_string raises; nothing in
\* append catches it, the redline loop records "processing_error"
DocSaveFail(p) ==
    /\ pc[p] = "save"
    /\ LeaveBody(p, "raise", ErrorResult(op[p]), NoEv)
    /\ UNCHANGED <<now, locks, docs, made>>

\* save(document) of create_document: save_without_lock under the lock
CreateSave(p) ==
    /\ pc[p] = "body"
    /\ op[p].kind = "create"
    /\ LET d == op[p].doc
           document == [kind |-> "doc", title |-> "t", text |-> op[p].text,
                        version |-> 1]
       IN /\ docs' = [docs EXCEPT ![d] = document]
          /\ LeaveBody(p, "normal", "ok",
                       [kind |-> "write", p |-> p, doc |-> d, op |-> "create",
                        lock_id |-> h[p].lock_id, before |-> docs[d],
                        after |-> document])
    /\ UNCHANGED <<now, locks, made>>

\* ----------------------------------------------- GCSDocumentStore.delete
\* (variant: delete reports True whether or not the document was there)
DeleteMissingResultTrue == "true"
\* "except NotFound: return False"
DeleteMissingResult == "false"

\* delete(): doc_blob.delete(); NotFound from it ends the call with False
DelDoc(p) ==
    /\ pc[p] = "body"
    /\ op[p].kind = "delete"
    /\ LET d == op[p].doc
       IN IF docs[d].kind = "none"
          THEN /\ LeaveBody(p, "return", DeleteMissingResult,
                            [kind |-> "doc_delete", p |-> p, doc |-> d,
                             before |-> docs[d], out |-> "absent"])
               /\ UNCHANGED docs
          ELSE /\ docs' = [docs EXCEPT ![d] = NoDoc]
               /\ pc' = [pc EXCEPT ![p] = "del_lock"]
               /\ ev' = [kind |-> "doc_delete", p |-> p, doc |-> d,
                         before |-> docs[d], out |-> "deleted"]
               /\ UNCHANGED <<h, op, loc, local_locks, res, succ>>
    /\ UNCHANGED <<now, locks, made>>

\* delete(): doc_blob.delete() raises something other than NotFound;
\* "except Exception: print(...); return False"
DelDocFail(p) ==
    /\ pc[p] = "body"
    /\ op[p].kind = "delete"
    /\ LeaveBody(p, "return", "false",
                 [kind |-> "doc_delete", p |-> p, doc |-> op[p].doc,
                  before |-> docs[op[p].doc], out |-> "failed"])
    /\ UNCHANGED <<now, locks, docs, made>>

\* delete(): lock_blob.delete() on locks/<id>.lock, whoever wrote it;
\* "except NotFound: pass"; return True
DelLock(p) ==
    /\ pc[p] = "del_lock"
    /\ LET d == op[p].doc
       IN /\ locks' = [locks EXCEPT ![d] = NoRec]
          /\ LeaveBody(p, "return", "true",
                       [kind |-> "lock_delete", p |-> p, doc |-> d,
                        removed |-> locks[d]])
    /\ UNCHANGED <<now, docs, made>>

\* delete(): lock_blob.delete() raises something other than NotFound, which
\* the outer "except Exception" turns into return False
DelLockFail(p) ==
    /\ pc[p] = "del_lock"
    /\ LeaveBody(p, "return", "false",
                 [kind |-> "lock_delete_failed", p |-> p, doc |-> op[p].doc])
    /\ UNCHANGED <<now, locks, docs, made>>

\* -------------------------------- GCSDocumentStore.cleanup_expired_locks
\* the ids in the order list_blobs(prefix="locks/") returns their blobs
ListedIds == <<"d1", "d2">>

\* (variant: a record counts as expired from the instant its timeout ends)
CleanupExpiredInclusive(rec) == now - rec.timestamp >= rec.timeout
\* "datetime.now(timezone.utc) - lock_time > timedelta(seconds=
\* lock_data['timeout'])"
CleanupExpired(rec) == now - rec.timestamp > rec.timeout

\* cleanup_expired_locks(): cleaned_count = 0 and the listing of locks/
BeginCleanup(p) ==
    /\ pc[p] = "idle"
    /\ Sum(made, Procs) < MaxHandles
    /\ LET todo == SelectSeq(ListedIds, LAMBDA d : locks[d].kind # "none")
       IN /\ op' = [op EXCEPT ![p] = [kind |-> "cleanup", doc |-> "d1",
                                      todo |-> todo, count |-> 0,
                                      mode |-> "none"]]
          /\ pc' = [pc EXCEPT ![p] = IF todo = <<>> THEN "cl_done" ELSE "cl_read"]
    /\ made' = [made EXCEPT ![p] = @ + 1]
    /\ ev' = NoEv
    /\ UNCHANGED <<now, locks, docs, h, loc, local_locks, res, succ>>

\* the loop is through with one blob and goes on to the next one
CleanNext(p, removed) ==
    LET o == op[p]
    IN /\ op' = [op EXCEPT ![p] = [o EXCEPT !.todo = Tail(o.todo),
                                     !.count = IF removed THEN @ + 1 ELSE @,
                                     !.mode = "none"]]
       /\ pc' = [pc EXCEPT ![p] = IF Tail(o.todo) = <<>> THEN "cl_done"
                                  ELSE "cl_read"]
       /\ loc' = [loc EXCEPT ![p] = NoLoc]
       /\ UNCHANGED local_locks
       /\ ev' = [kind |-> "cleaned_one", p |-> p, doc |-> Head(o.todo),
                 stored |-> locks[Head(o.todo)], removed |-> removed,
                 read_at |-> loc[p].read_at, mode |-> o.mode]

\* the delete of a blob is due: in the try block (mode "expired") or in
\* the except block (mode "corrupt")
CleanToDelete(p, mode, existing, read_at) ==
    /\ op' = [op EXCEPT ![p].mode = mode]
    /\ pc' = [pc EXCEPT ![p] = "cl_delete"]
    /\ loc' = [loc EXCEPT ![p].existing = existing, ![p].read_at = read_at]
    /\ UNCHANGED local_locks
    /\ ev' = NoEv

\* json.loads(blob.download_as_text()), fromisoformat, the expiry test
CleanRead(p) ==
    /\ pc[p] = "cl_read"
    /\ LET rec == locks[Head(op[p].todo)]
       IN IF rec.kind = "rec"
          THEN IF CleanupExpired(rec)
               THEN CleanToDelete(p, "expired", rec, now)
               ELSE CleanNext(p, FALSE)
          ELSE CleanToDelete(p, "corrupt", rec, now)
    /\ UNCHANGED <<now, locks, docs, made, h, res, succ>>

\* the download raises: "except Exception" goes on to delete the blob
CleanReadFail(p) ==
    /\ pc[p] = "cl_read"
    /\ CleanToDelete(p, "corrupt", Unreadable, now)
    /\ UNCHANGED <<now, locks, docs, made, h, res, succ>>

\* (variant: the delete made only if the record is still the one read)
CleanDeleteIfUnchanged(p) ==
    /\ pc[p] = "cl_delete"
    /\ LET d == Head(op[p].todo)
       IN IF locks[d] = loc[p].existing /\ locks[d].kind # "none"
          THEN /\ locks' = [locks EXCEPT ![d] = NoRec]
               /\ CleanNext(p, TRUE)
          ELSE /\ CleanNext(p, FALSE)
               /\ UNCHANGED locks
    /\ UNCHANGED <<now, docs, made, h, res, succ>>
\* blob.delete(); cleaned_count += 1. NotFound or any other exception of
\* the delete in the try block leads to the delete of the except block,
\* whose exceptions are passed over
CleanDelete(p) ==
    /\ pc[p] = "cl_delete"
    /\ LET d == Head(op[p].todo)
       IN IF locks[d].kind = "none"
          THEN /\ IF op[p].mode = "expired"
                  THEN CleanToDelete(p, "corrupt", loc[p].existing, loc[p].read_at)
                  ELSE CleanNext(p, FALSE)
               /\ UNCHANGED locks
          ELSE /\ locks' = [locks EXCEPT ![d] = NoRec]
               /\ CleanNext(p, TRUE)
    /\ UNCHANGED <<now, docs, made, h, res, succ>>

\* blob.delete() raises
CleanDeleteFail(p) ==
    /\ pc[p] = "cl_delete"
    /\ IF op[p].mode = "expired"
       THEN CleanToDelete(p, "corrupt", loc[p].existing, loc[p].read_at)
       ELSE CleanNext(p, FALSE)
    /\ UNCHANGED <<now, locks, docs, made, h, res, succ>>

\* return cleaned_count
CleanReturn(p) ==
    /\ pc[p] = "cl_done"
    /\ ev' = [kind |-> "cleaned", p |-> p, count |-> op[p].count]
    /\ pc' = [pc EXCEPT ![p] = "idle"]
    /\ op' = [op EXCEPT ![p] = NoOp]
    /\ UNCHANGED <<now, locks, docs, made, h, loc, local_locks, res, succ>>

\* ------------------------------------------- TextReplacer.apply_changes
\* a caller about to run text_replacer.apply_changes(text, changes)
InitApply(texts, batches) ==
    /\ now = 0
    /\ locks = [d \in DocIds |-> NoRec]
    /\ docs = [d \in DocIds |-> NoDoc]
    /\ made = [p \in Procs |-> 0]
    /\ \E text \in texts, changes \in batches :
          op = [p \in Procs |->
                  IF p = "p1"
                  THEN [kind |-> "apply", doc |-> "d1", text |-> text,
                        changes |-> changes]
                  ELSE NoOp]
    /\ pc = [p \in Procs |-> IF p = "p1" THEN "apply" ELSE "idle"]
    /\ h = [p \in Procs |-> NoHandle]
    /\ loc = [p \in Procs |-> NoLoc]
    /\ local_locks = [c \in Coordinators |-> {}]
    /\ res = [p \in Procs |-> "none"]
    /\ ev = NoEv
    /\ succ = [d \in DocIds |-> 0]

\* apply_changes(text, changes) returns
Apply(p) ==
    /\ pc[p] = "apply"
    /\ ev' = [kind |-> "applied", text |-> op[p].text, changes |-> op[p].changes,
              result |-> ApplyChanges(op[p].text, op[p].changes)]
    /\ pc' = [pc EXCEPT ![p] = "idle"]
    /\ op' = [op EXCEPT ![p] = NoOp]
    /\ UNCHANGED <<now, locks, docs, made, h, loc, local_locks, res, succ>>

\* ---------------------------------------------------------- environment
\* time passes
Tick ==
    /\ now < MaxTime
    /\ now' = now + 1
    /\ ev' = NoEv
    /\ UNCHANGED <<locks, docs, made, pc, op, h, loc, local_locks, res, succ>>

\* a lock blob whose payload json.loads / fromisoformat cannot read
CorruptLock(d) ==
    /\ locks[d].kind = "rec"
    /\ locks' = [locks EXCEPT ![d] = CorruptRec]
    /\ ev' = NoEv
    /\ UNCHANGED <<now, docs, made, pc, op, h, loc, local_locks, res, succ>>

\* -------------------------------------------------------- specifications
AcquireSteps(p) == AcqCreate(p) \/ AcqRead(p)

LockSteps(p) == AcquireSteps(p) \/ AcqSteal(p) \/ RelRead(p) \/ RelDelete(p)

LockFailures(p) ==
    \/ AcqCreateFail(p) \/ AcqReadFail(p) \/ AcqStealFail(p)
    \/ RelReadFail(p) \/ RelDeleteFail(p)

\* lock scopes only, with expiry, store failures and corrupt lock blobs
NextLock ==
    \/ \E p \in Procs : BeginScope(p) \/ ScopeBody(p) \/ LockSteps(p) \/ LockFailures(p)
    \/ Tick
    \/ \E d \in LockDocs : CorruptLock(d)

SpecLock == Init /\ [][NextLock]_vars

\* lock scopes only; no record expires, no store call fails
NextQuiet ==
    \E p \in Procs : BeginScope(p) \/ ScopeBody(p) \/ LockSteps(p)

SpecQuiet == Init /\ [][NextQuiet]_vars

\* handles used as scopes directly, next to lock_document scopes; no record
\* expires, no store call fails
NextDirect ==
    \E p \in Procs :
        \/ BeginDirect(p) \/ DirectBody(p) \/ RelNotHeld(p)
        \/ BeginScope(p) \/ ScopeBody(p) \/ LockSteps(p)

SpecDirect == Init /\ [][NextDirect]_vars

DocSteps(p) == RedlineExists(p) \/ DocGet(p) \/ DocSave(p) \/ CreateSave(p)

\* create, append and redline requests; no record expires, no store call
\* fails
NextDocs ==
    \E p \in Procs :
        \/ BeginCreate(p) \/ BeginAppend(p) \/ BeginRedline(p)
        \/ DocSteps(p) \/ LockSteps(p)

SpecDocs == Init /\ [][NextDocs]_vars

\* lock scopes with expiry; no store call fails
NextExpiry ==
    \/ \E p \in Procs : BeginScope(p) \/ ScopeBody(p) \/ LockSteps(p)
    \/ Tick

SpecExpiry == Init /\ [][NextExpiry]_vars

\* acquire() calls only, on a store that starts with no lock record; no
\* release, no expiry, no store failure
NextAcquire ==
    \E p \in Procs : BeginAcquire(p) \/ AcquireSteps(p)

SpecAcquire == Init /\ [][NextAcquire]_vars

HierSteps(p) == BeginHierarchy(p) \/ HierBody(p) \/ HierReturn(p)

\* lock_hierarchy calls; no record expires, no store call fails
NextHier ==
    \E p \in Procs : HierSteps(p) \/ LockSteps(p)

SpecHier == Init /\ [][NextHier]_vars

\* lock_hierarchy calls of two contexts with store failures; no record
\* expires
NextHierFail ==
    \E p \in FailProcs : HierSteps(p) \/ LockSteps(p) \/ LockFailures(p)

SpecHierFail == Init /\ [][NextHierFail]_vars

\* lock_hierarchy calls of one context, one after the other, while time
\* passes; no other context runs, no store call fails
NextHierSolo ==
    \/ \E p \in SoloProcs :
          BeginHierarchyTimed(p) \/ HierBody(p) \/ HierReturn(p) \/ LockSteps(p)
    \/ Tick

SpecHierSolo == Init /\ [][NextHierSolo]_vars

\* the repository operations of one context, one after the other, while
\* time passes and lock blobs get corrupted; no store call fails
NextSolo ==
    \/ \E p \in SoloProcs :
          \/ BeginCreate(p) \/ BeginAppend(p) \/ BeginGet(p) \/ BeginDelete(p)
          \/ BeginRedline(p) \/ BeginCleanup(p) \/ BeginAcquire(p)
          \/ BeginBatch(p) \/ RedlineReturn(p)
          \/ DocSteps(p) \/ DelDoc(p) \/ DelLock(p) \/ ScopeBody(p)
          \/ CleanRead(p) \/ CleanDelete(p) \/ CleanReturn(p)
          \/ LockSteps(p)
    \/ Tick
    \/ \E d \in DocIds : CorruptLock(d)

SpecSolo == Init /\ [][NextSolo]_vars

\* every scoped operation of two contexts: lock scopes, create, get,
\* append, delete, redline requests and lock_hierarchy calls, while time
\* passes and records expire; no store call fails. The repository
\* operations and lock_hierarchy calls start while fewer than MaxScopedOps
\* handles have been made.
NextScoped ==
    \/ \E p \in FailProcs :
          \/ BeginAcquire(p) \/ ScopeBody(p)
          \/ /\ Sum(made, Procs) < MaxScopedOps
             /\ \/ BeginCreate(p) \/ BeginAppend(p) \/ BeginGet(p)
                \/ BeginDelete(p) \/ BeginRedline(p) \/ BeginHierarchyTimed(p)
          \/ DocSteps(p) \/ DelDoc(p) \/ DelLock(p)
          \/ HierBody(p) \/ HierReturn(p)
          \/ LockSteps(p)
    \/ Tick

SpecScoped == Init /\ [][NextScoped]_vars

\* append calls on the one stored document, up to MaxWriterCalls handles
\* in all, and redline requests among the first MaxHandles of them, by
\* three contexts; no record expires, no store call fails
BeginAppendStored(p) ==
    \E sfx \in Suffixes :
        EnterWithin(p, [kind |-> "append", doc |-> "d1", suffix |-> sfx,
                        locked |-> locks["d1"].kind # "none"],
                    DefaultLockTimeout, MaxWriterCalls)

NextWriters ==
    \E p \in Procs :
        \/ BeginAppendStored(p) \/ BeginRedline(p)
        \/ RedlineExists(p) \/ DocGet(p) \/ DocSave(p) \/ LockSteps(p)

SpecWriters == Init /\ [][NextWriters]_vars

\* the same with store calls that fail
NextSoloFail ==
    \/ NextSolo
    \/ \E p \in SoloProcs :
          \/ DocGetFail(p) \/ DocSaveFail(p) \/ DelDocFail(p) \/ DelLockFail(p)
          \/ CleanReadFail(p) \/ CleanDeleteFail(p) \/ LockFailures(p)

SpecSoloFail == Init /\ [][NextSoloFail]_vars

\* redline batches, get and append of context p1 while context p2 holds and
\* releases locks; time passes and store calls fail
NextRequests ==
    \/ \E p \in SoloProcs :
          \/ BeginBatch(p) \/ RedlineReturn(p) \/ BeginGet(p) \/ BeginAppend(p)
          \/ RedlineExists(p) \/ DocGet(p) \/ DocSave(p)
          \/ DocGetFail(p) \/ DocSaveFail(p)
          \/ LockSteps(p) \/ LockFailures(p)
    \/ \E p \in FailProcs \ SoloProcs :
          BeginAcquire(p) \/ ScopeBody(p) \/ LockSteps(p)
    \/ Tick

SpecRequests == Init /\ [][NextRequests]_vars

\* the context that runs cleanup_expired_locks
Cleaner == "p2"

\* cleanup_expired_locks of one context over the lock records the scopes of
\* the other contexts hold or have left; nothing else runs while a cleanup
\* is under way, no store call fails
NextCleanup ==
    \/ BeginCleanup(Cleaner) \/ CleanRead(Cleaner) \/ CleanDelete(Cleaner)
    \/ CleanReturn(Cleaner)
    \/ /\ pc[Cleaner] = "idle"
       /\ \E p \in Procs \ {Cleaner} :
             BeginAcquire(p) \/ ScopeBody(p) \/ LockSteps(p)
    \/ Tick
    \/ \E d \in DocIds : CorruptLock(d)

SpecCleanup == Init /\ [][NextCleanup]_vars

\* cleanup_expired_locks of one context while the scopes of the other
\* contexts acquire and release; time passes, no store call fails
NextCleanupRace ==
    \/ BeginCleanup(Cleaner) \/ CleanRead(Cleaner) \/ CleanDelete(Cleaner)
    \/ CleanReturn(Cleaner)
    \/ \E p \in Procs \ {Cleaner} : BeginAcquire(p) \/ ScopeBody(p) \/ LockSteps(p)
    \/ Tick

SpecCleanupRace == Init /\ [][NextCleanupRace]_vars

\* apply_changes on one change
InitApplyOne ==
    InitApply(TextsUpTo(MaxTextLen), {<<c>> : c \in SingleChanges})

NextApply == \E p \in Procs : Apply(p)

SpecApplyOne == InitApplyOne /\ [][NextApply]_vars

\* apply_changes on batches of up to MaxBatch changes
InitApplyBatch == InitApply(TextsUpTo(MaxBatchTextLen), Batches)

SpecApplyBatch == InitApplyBatch /\ [][NextApply]_vars

\* apply_changes on two target changes with one target and one occurrence
InitApplyTies == InitApply(TextsUpTo(MaxTieTextLen), TieBatches)

SpecApplyTies == InitApplyTies /\ [][NextApply]_vars

\* ================================================================ claims
HeldOn(d) == {p \in Procs : h[p].lock_acquired /\ h[p].doc = d}

StoresIdOf(d, id) == locks[d].kind = "rec" /\ locks[d].lock_id = id

\* the record the acquire() call read was readable and older than the
\* timeout stored in it
ReadExpired(e) ==
    /\ e.existing.kind = "rec"
    /\ e.read_at - e.existing.timestamp > e.existing.timeout

\* the record the acquire() call read was readable, another handle's and not
\* older than the timeout stored in it
ReadLive(e) ==
    /\ e.existing.kind = "rec"
    /\ e.existing.lock_id # e.lock_id
    /\ e.read_at - e.existing.timestamp <= e.existing.timeout

\* C1: of the acquire() calls racing for one id on a store that started
\* without a lock record for it, with no expiry and no store failure, at
\* most one returns held (and none of them reaches the steal step).
C1_AtMostOneAcquireHeld ==
    /\ \A d \in DocIds : Cardinality(HeldOn(d)) <= 1
    /\ \A p \in Procs : pc[p] # "acq_steal"

\* a call was refused while another call's handle holds the same id
C1_Witness ==
    /\ ev.kind = "acquire" /\ ev.out = "refused"
    /\ \E q \in Procs : q # ev.p /\ q \in HeldOn(ev.doc)

\* C2: with no expiry and no store failure, no state has two different
\* handles of one document id both locally held.
C2_MutualExclusion ==
    \A p, q \in Procs :
        (p # q /\ h[p].lock_acquired /\ h[q].lock_acquired) => h[p].doc # h[q].doc

\* C3: whenever append or a redline request writes a document record, the
\* lock record stored for that id at that moment carries the writer's
\* lock_id.
C3_WritesUnderOwnLock ==
    (ev.kind = "write" /\ ev.op \in {"append", "redline"}) =>
        StoresIdOf(ev.doc, ev.lock_id)

\* C4: a version starts at 1 and, once every operation has returned, equals
\* 1 plus the number of operations that reported success.
C4_NoLostUpdate ==
    /\ (ev.kind = "write" /\ ev.op = "create") => ev.after.version = 1
    /\ (\A p \in Procs : pc[p] = "idle") =>
           \A d \in DocIds :
               docs[d].kind = "doc" => docs[d].version = 1 + succ[d]

\* C5 (as stated): an acquire() that read a readable record older than the
\* record's own timeout returns held, the store then carrying its lock_id.
C5_ExpiredAlwaysStolen ==
    (ev.kind = "acquire" /\ ReadExpired(ev)) =>
        (ev.out = "stolen" /\ ev.held /\ StoresIdOf(ev.doc, ev.lock_id))

\* C5 (amended): ... returns held, the store then carrying its lock_id,
\* unless the steal overwrite fails: then it returns not acquired, not held.
C5_ExpiredStolenUnlessOverwriteFails ==
    (ev.kind = "acquire" /\ ReadExpired(ev)) =>
        \/ ev.out = "stolen" /\ ev.held /\ StoresIdOf(ev.doc, ev.lock_id)
        \/ ev.out = "steal_error" /\ ~ev.held /\ ev.res = "lock_unavailable"

\* an expired record of another handle, whose timeout differs from the
\* caller's and would not have let the caller steal, was stolen
C5_Witness ==
    /\ ev.kind = "acquire" /\ ReadExpired(ev) /\ ev.out = "stolen"
    /\ ev.existing.lock_id # ev.lock_id
    /\ ev.existing.timeout # TimeoutOf[ev.p]
    /\ ev.read_at - ev.existing.timestamp <= TimeoutOf[ev.p]

\* C6: an acquire() that read a readable, unexpired record of another handle
\* returns not acquired, its handle not held, the stored record unchanged.
C6_LiveRecordRefuses ==
    (ev.kind = "acquire" /\ ReadLive(ev)) =>
        /\ ev.out = "refused" /\ ~ev.held /\ ev.res = "lock_unavailable"
        /\ locks[ev.doc] = ev.existing

\* a record exactly as old as its timeout (not older) refused the caller
C6_Witness ==
    /\ ev.kind = "acquire" /\ ReadLive(ev) /\ ev.out = "refused"
    /\ ev.read_at - ev.existing.timestamp = ev.existing.timeout
    /\ ev.read_at > 0

\* C7: release() never removes a lock record whose lock_id differs from the
\* releasing handle's.
C7_ReleaseRemovesOnlyOwn ==
    (ev.kind = "release" /\ ev.removed.kind = "rec") =>
        ev.removed.lock_id = ev.lock_id

\* C8: when release() returns on a held handle the handle is no longer held,
\* whatever the store answered, and no exception escaped.
C8_ReleaseClearsHeld ==
    ev.kind = "release" => (~ev.held /\ ~ev.raised)

\* release() returned after its store read failed
C8_Witness ==
    ev.kind = "release" /\ ev.out = "read_error" /\ ~ev.held

\* C9: acquire() never raises; a store failure on the conditional create or
\* on the steal overwrite returns not acquired with the handle not held; a
\* failed read or a corrupt payload sends the call to the steal.
C9_AcquireNeverRaises ==
    /\ ev.kind = "acquire" => ev.out # "raised"
    /\ (ev.kind = "acquire" /\ ev.out \in {"create_error", "steal_error"}) =>
           (~ev.held /\ ev.res = "lock_unavailable" /\ pc[ev.p] = "idle")
    /\ (ev.kind = "acquire" /\ ev.existing.kind \in {"error", "corrupt"}) =>
           ev.out \in {"stolen", "steal_error"}
    /\ \A p \in Procs :
           loc[p].existing.kind \in {"error", "corrupt"} => pc[p] = "acq_steal"

\* a record that could not be read was stolen
C9_Witness ==
    /\ ev.kind = "acquire" /\ ev.out = "stolen" /\ ev.held
    /\ ev.existing.kind \in {"error", "corrupt"}

\* C10 (as stated): whenever a lock_document scope is left after a successful
\* acquire, release() has run and the store holds no record with the
\* handle's lock_id.
C10_ScopeExitRemovesRecord ==
    ev.kind \in {"release", "left"} =>
        (ev.kind = "release" /\ ~StoresIdOf(ev.doc, ev.lock_id))

\* C10 (amended): ... release() has run, and unless its store read or delete
\* failed the store holds no record with the handle's lock_id.
C10_ScopeExitReleases ==
    ev.kind \in {"release", "left"} =>
        /\ ev.kind = "release"
        /\ ev.out \notin {"read_error", "delete_error"} =>
               ~StoresIdOf(ev.doc, ev.lock_id)

\* the body raised and the scope's release removed the handle's record
C10_Witness ==
    /\ ev.kind = "release" /\ ev.exit = "raise" /\ ev.out = "deleted"
    /\ ev.removed.lock_id = ev.lock_id /\ locks[ev.doc] = NoRec

\* C11: when acquire() returns False inside lock_document the operation ends
\* with the lock-unavailable error and its body is never entered, and no step
\* of an acquire() that does not return held changes a lock record or a
\* document record.
C11_FailedAcquireFailsScope ==
    [][/\ (ev'.kind = "acquire" /\ ~ev'.held /\ op[ev'.p].kind = "scope") =>
              /\ ev'.res = "lock_unavailable"
              /\ pc'[ev'.p] = "idle" /\ op'[ev'.p] = NoOp
       /\ \A p \in Procs :
              (/\ pc[p] \in {"acq_create", "acq_read", "acq_steal"}
               /\ pc'[p] # pc[p]
               /\ ~(ev'.kind = "acquire" /\ ev'.held)) =>
                  (locks' = locks /\ docs' = docs)]_vars

\* a scope was refused while the holder's body is running, the holder's
\* record still in the store
C11_Witness ==
    /\ ev.kind = "acquire" /\ ev.out = "refused" /\ ev.res = "lock_unavailable"
    /\ pc[ev.p] = "idle"
    /\ \E q \in Procs :
          /\ pc[q] = "body" /\ h[q].doc = ev.doc
          /\ StoresIdOf(ev.doc, h[q].lock_id)

\* the ids of seq never decrease in str order
IsAscending(seq) ==
    \A i \in 1 .. Len(seq) - 1 : IdRank[seq[i]] <= IdRank[seq[i + 1]]

IsPrefix(a, b) == Len(a) <= Len(b) /\ SubSeq(b, 1, Len(a)) = a

Count(seq, d) == Cardinality({i \in 1 .. Len(seq) : seq[i] = d})

IsPermutation(a, b) == \A d \in DocIds : Count(a, d) = Count(b, d)

HierCalls == {p \in Procs : op[p].kind = "hier"}

\* C12: a lock_hierarchy call attempts its acquires in ascending id order
\* whatever the order of its input list, never more attempts on an id than
\* the list names it; of two calls whose lists are permutations of each other
\* the attempt sequences agree as far as both have got.
C12_AttemptsInSortedOrder ==
    /\ \A p \in HierCalls :
          /\ IsAscending(op[p].tried)
          /\ \A d \in DocIds : Count(op[p].tried, d) <= Count(op[p].input, d)
          /\ op[p].phase = "body" => IsPermutation(op[p].tried, op[p].input)
    /\ \A p, q \in HierCalls :
          IsPermutation(op[p].input, op[q].input) =>
              (IsPrefix(op[p].tried, op[q].tried) \/ IsPrefix(op[q].tried, op[p].tried))

\* two calls given the same ids in opposite orders both attempted d1, then d2
C12_Witness ==
    \E p, q \in HierCalls :
        /\ op[p].input = <<"d2", "d1">> /\ op[q].input = <<"d1", "d2">>
        /\ op[p].tried = <<"d1", "d2">> /\ op[q].tried = <<"d1", "d2">>

\* the handles a lock_hierarchy call has acquired
GotOf(p) == {op[p].got[k] : k \in 1 .. Len(op[p].got)}

\* the call of p is over, having failed on an acquire
HierFailed(p) ==
    op[p].kind = "hier" /\ pc[p] = "hdone" /\ op[p].failed # "none"

\* whatever the claim says of a failed call but the state of the store
HierFailedCleanly(p) ==
    /\ \A g \in GotOf(p) : ~g.lock_acquired
    /\ ~op[p].ran
    /\ op[p].result = "lock_unavailable"
    /\ op[p].failed = op[p].tried[Len(op[p].tried)]

\* the error of a failing call names the id of the handle whose acquire()
\* returned False
FailureNamesId ==
    (ev.kind = "acquire" /\ ~ev.held /\ op[ev.p].kind = "hier") =>
        op[ev.p].failed = ev.doc

\* C13 (as stated): once a lock_hierarchy call has failed on an acquire,
\* every handle it had acquired is released, its body never ran, the error
\* names the id whose acquire failed, and no lock record the call wrote is in
\* the store.
C13_RollbackRemovesRecords ==
    /\ FailureNamesId
    /\ \A p \in Procs : HierFailed(p) =>
          /\ HierFailedCleanly(p)
          /\ \A g \in GotOf(p) : ~StoresIdOf(g.doc, g.lock_id)

\* C13 (amended): ... and no lock record the call wrote is in the store,
\* those excepted whose release() met a store error on its read or delete.
C13_RollbackReleases ==
    /\ FailureNamesId
    /\ \A p \in Procs : HierFailed(p) =>
          /\ HierFailedCleanly(p)
          /\ \A g \in GotOf(p) :
                 g.lock_id \notin op[p].errs => ~StoresIdOf(g.doc, g.lock_id)

\* a call that had acquired d1 was refused on d2, which another call holds,
\* and has removed its record of d1
C13_Witness ==
    \E p \in Procs :
        /\ HierFailed(p) /\ op[p].failed = "d2" /\ op[p].errs = {}
        /\ Len(op[p].got) = 1 /\ ~op[p].got[1].lock_acquired
        /\ ~StoresIdOf("d1", op[p].got[1].lock_id)
        /\ \E q \in HierCalls \ {p} : \E g \in GotOf(q) :
               g.doc = "d2" /\ g.lock_acquired /\ StoresIdOf("d2", g.lock_id)

\* position of a context within one acquire() call
AcquireStage(p) ==
    IF pc[p] = "acq_create" THEN 1
    ELSE IF pc[p] = "acq_read" THEN 2
    ELSE IF pc[p] = "acq_steal" THEN 3
    ELSE 4

\* how far the acquire loop of a call has got: list entries attempted, then
\* the position within the current attempt
AcquireProgress(p) == 4 * Len(op[p].tried) + AcquireStage(p)

Acquiring(p) == op[p].kind = "hier" /\ AcquireStage(p) < 4

\* a call that is neither over nor in its body has a step it can take
\* whatever the other calls do
NoCallWaits ==
    \A p \in HierCalls :
        pc[p] \notin {"hbody", "hdone"} => ENABLED LockSteps(p)

\* attempts never outnumber the list entries, an id listed once is attempted
\* at most once
AttemptsBounded ==
    \A p \in HierCalls :
        /\ Len(op[p].tried) <= Len(op[p].input)
        /\ \A d \in DocIds :
               Count(op[p].input, d) <= 1 => Count(op[p].tried, d) <= 1

\* a step of a call in its acquire loop moves the loop on: to the next store
\* call of the attempt, to the next entry, to the yield or to the failure
CallsAdvance ==
    \A p \in Procs :
        (Acquiring(p) /\ <<pc[p], op[p], h[p]>> # <<pc'[p], op'[p], h'[p]>>) =>
            /\ op'[p].kind = "hier"
            /\ \/ Acquiring(p)' /\ AcquireProgress(p)' > AcquireProgress(p)
               \/ pc'[p] = "hbody" /\ Len(op'[p].got) = Len(op[p].ids)
               \/ pc'[p] \in {"rel_read", "hdone"} /\ op'[p].failed # "none"

\* C14: concurrent lock_hierarchy calls on overlapping ids cannot deadlock:
\* no call ever waits, each makes at most one acquire attempt per listed id,
\* and every step of its acquire loop brings it nearer to yielding its
\* handles or failing.
C14_NoDeadlock ==
    [](NoCallWaits /\ AttemptsBounded) /\ [][CallsAdvance]_vars

\* a call holding d1 was refused on d2 while the call holding d2 is in its
\* body: it fails at once instead of waiting
C14_Witness ==
    /\ ev.kind = "acquire" /\ ev.out = "refused" /\ ev.doc = "d2"
    /\ op[ev.p].kind = "hier" /\ op[ev.p].phase = "rollback"
    /\ \E g \in GotOf(ev.p) : g.doc = "d1" /\ g.lock_acquired
    /\ \E q \in HierCalls \ {ev.p} :
          pc[q] = "hbody" /\ \E g \in GotOf(q) : StoresIdOf("d2", g.lock_id)

\* the last acquire() of p's lock_hierarchy call has just returned True: the
\* call yields its handles
HierYields(p) ==
    ev.kind = "acquire" /\ ev.p = p /\ op[p].kind = "hier" /\ pc[p] = "hbody"

\* the yielded list holds one held handle per requested id, in order
HoldsEveryId(p) ==
    /\ Len(op[p].got) = Len(op[p].ids)
    /\ IsPermutation(op[p].ids, op[p].input)
    /\ \A k \in 1 .. Len(op[p].got) :
          op[p].got[k].doc = op[p].ids[k] /\ op[p].got[k].lock_acquired

\* a call whose body ran is over with every handle released
ReleasedAfterBody ==
    \A p \in HierCalls :
        (pc[p] = "hdone" /\ op[p].ran) =>
            /\ Len(op[p].got) = Len(op[p].ids)
            /\ \A g \in GotOf(p) : ~g.lock_acquired

\* C15: when lock_hierarchy yields, the caller holds a handle for every
\* requested id and (no record expiring) the lock record stored for each id
\* carries that handle's lock_id; once the scope is left, normally or by an
\* exception, every handle has been released.
C15_YieldHoldsAllLocks ==
    /\ \A p \in Procs : HierYields(p) =>
          /\ HoldsEveryId(p)
          /\ \A g \in GotOf(p) : StoresIdOf(g.doc, g.lock_id)
    /\ ReleasedAfterBody

\* apply_changes has just returned for a single change
AppliedOne == ev.kind = "applied" /\ Len(ev.changes) = 1

MatchOffsets(text, target) ==
    {i \in 0 .. Len(text) - Len(target) :
        SubSeq(text, i + 1, i + Len(target)) = target}

\* the offsets of the occurrences counted without overlap, left to right
\* from offset from on (as str.count and str.replace count them)
RECURSIVE DisjointOffsets(_, _, _)
DisjointOffsets(text, target, from) ==
    LET rest == {i \in MatchOffsets(text, target) : i >= from}
    IN IF rest = {} THEN {}
       ELSE {Minimum(rest)}
            \cup DisjointOffsets(text, target, Minimum(rest) + Len(target))

\* the k-th smallest element of a set of at least k offsets
Kth(S, k) == CHOOSE x \in S : Cardinality({y \in S : y < x}) = k - 1

\* result is text with the occurrence of target at offset m replaced by R,
\* and every other occurrence listed in S stands in result as it stood in
\* text (moved by the change of length if it lies behind m)
ReplacesOnly(text, result, S, m, target, R) ==
    /\ result = SubSeq(text, 1, m) \o R \o SubSeq(text, m + Len(target) + 1, Len(text))
    /\ \A x \in S \ {m} :
          LET y == IF x < m THEN x ELSE x + Len(R) - Len(target)
          IN /\ (x < m => x + Len(target) <= m)
             /\ (x > m => x >= m + Len(target))
             /\ SubSeq(result, y + 1, y + Len(target)) = target

\* the claim with S as the occurrences of the change's target in the text
KthMatchReplaced(e, S) ==
    Cardinality(S) >= e.changes[1].occurrence =>
        ReplacesOnly(e.text, e.result, S, Kth(S, e.changes[1].occurrence),
                     e.changes[1].target_text, e.changes[1].replacement)

\* C17: where target_text occurs at least k times (k >= 1), apply_changes
\* with the single target change replaces exactly the k-th left-to-right
\* match and leaves every other match untouched; stated for both ways of
\* counting matches (every offset, or without overlap), it fails only on an
\* input on which it fails under both.
C17_KthMatchOnly ==
    (AppliedOne /\ ev.changes[1].kind = "target" /\ ev.changes[1].occurrence >= 1) =>
        \/ KthMatchReplaced(ev, MatchOffsets(ev.text, ev.changes[1].target_text))
        \/ KthMatchReplaced(ev, DisjointOffsets(ev.text, ev.changes[1].target_text, 0))

\* a change is valid against a text: a range within the text with
\* start <= end, or a target with occurrence >= 1 that occurs that often
\* (every offset counted)
IsValidChange(text, c) ==
    IF c.kind = "range"
    THEN 0 <= c.start /\ c.start <= c.end /\ c.end <= Len(text)
    ELSE /\ c.occurrence >= 1
         /\ Cardinality(MatchOffsets(text, c.target_text)) >= c.occurrence

\* C18: apply_changes returns the text unchanged when the batch is empty or
\* holds invalid changes only (it always returns: no step of it raises).
C18_NoValidChangeIsIdentity ==
    (/\ ev.kind = "applied"
     /\ \A i \in 1 .. Len(ev.changes) : ~IsValidChange(ev.text, ev.changes[i])) =>
        ev.result = ev.text

\* a batch of an invalid range and a target with occurrence 0 left a text
\* that contains the target as it was
C18_Witness ==
    /\ ev.kind = "applied" /\ Len(ev.changes) = 2 /\ ev.result = ev.text
    /\ ev.changes[1].kind = "range" /\ ~IsValidChange(ev.text, ev.changes[1])
    /\ ev.changes[2].kind = "target" /\ ev.changes[2].occurrence = 0
    /\ MatchOffsets(ev.text, ev.changes[2].target_text) # {}

\* the span of a valid change in the original text: [start, end) of a
\* range, the occurrence-th match of a target (every offset counted)
SpanStart(text, c) ==
    IF c.kind = "range" THEN c.start
    ELSE Kth(MatchOffsets(text, c.target_text), c.occurrence)

SpanEnd(text, c) ==
    IF c.kind = "range" THEN c.end
    ELSE SpanStart(text, c) + Len(c.target_text)

\* e1 and e2 are valid, e1 lies before e2 and their spans do not overlap
LiesBefore(text, e1, e2) ==
    /\ IsValidChange(text, e1) /\ IsValidChange(text, e2)
    /\ SpanStart(text, e1) < SpanStart(text, e2)
    /\ SpanEnd(text, e1) <= SpanStart(text, e2)

Swapped(changes) == <<changes[2], changes[1]>>

DisjointPair(e) ==
    /\ e.kind = "applied" /\ Len(e.changes) = 2
    /\ \/ LiesBefore(e.text, e.changes[1], e.changes[2])
       \/ LiesBefore(e.text, e.changes[2], e.changes[1])

\* C19: for two valid changes whose spans in the original text do not
\* overlap and whose positions differ, apply_changes gives the same result
\* for the batch in either order.
C19_OrderOfDisjointPairIrrelevant ==
    DisjointPair(ev) => ev.result = ApplyChanges(ev.text, Swapped(ev.changes))

\* a range and a target, the later one first in the batch, both applied
C19_Witness ==
    /\ DisjointPair(ev)
    /\ LiesBefore(ev.text, ev.changes[2], ev.changes[1])
    /\ ev.changes[1].kind = "target" /\ ev.changes[2].kind = "range"
    /\ Len(ev.result) # Len(ev.text)
    /\ ev.result # ApplySingleChange(ev.text, ev.changes[1])
    /\ ev.result # ApplySingleChange(ev.text, ev.changes[2])

\* the changes of a batch that are valid against the text, in batch order
ValidChanges(text, changes) ==
    SelectSeq(changes, LAMBDA c : IsValidChange(text, c))

\* C20: apply_changes returns for every text and batch what it returns for
\* the batch without the changes that are invalid against the original
\* text.
C20_InvalidChangesAreDropped ==
    ev.kind = "applied" =>
        ev.result = ApplyChanges(ev.text, ValidChanges(ev.text, ev.changes))

\* an invalid range ahead of a valid change that took effect
C20_Witness ==
    /\ ev.kind = "applied" /\ Len(ev.changes) = 2
    /\ ev.changes[1].kind = "range"
    /\ ~IsValidChange(ev.text, ev.changes[1])
    /\ IsValidChange(ev.text, ev.changes[2])
    /\ ev.result # ev.text
    /\ ev.result = ApplySingleChange(ev.text, ev.changes[2])

\* context p takes a step of the body of its operation of kind k
BodyStep(p, k) ==
    op[p].kind = k /\ pc[p] \in {"body", "save", "del_lock"} /\ pc'[p] # pc[p]

\* context p takes the step on which release() returns to its operation
ReturnStep(p, k) ==
    op[p].kind = k /\ pc[p] \in {"rel_read", "rel_delete"} /\ pc'[p] = "idle"

\* document with suffix appended as append() specifies it
Appended(document, suffix) ==
    [kind |-> "doc", title |-> document.title,
     text |-> document.text \o suffix, version |-> document.version + 1]

AppendStep(p) ==
    LET d == op[p].doc
    IN /\ (BodyStep(p, "append") /\ docs[d].kind = "doc" /\ pc[p] = "body") =>
             (pc'[p] = "save" /\ docs' = docs)
       /\ (BodyStep(p, "append") /\ pc[p] = "save") =>
             /\ docs[d].kind = "doc"
             /\ docs' = [docs EXCEPT ![d] = Appended(docs[d], op[p].suffix)]
             /\ res'[p] = "ok"
       /\ (ReturnStep(p, "append") /\ res[p] = "ok") =>
             (ev'.kind = "release" /\ ev'.res = "ok" /\ docs' = docs)

\* C21: with no concurrent writer, append on an existing document whose
\* lock was acquired reads the document, stores it with text = old text +
\* suffix and version = old version + 1 under the same id and title, and
\* reports success.
C21_AppendConcatenates == [][\A p \in Procs : AppendStep(p)]_vars

\* an append on the initial document has reported success
C21_Witness ==
    /\ ev.kind = "release" /\ ev.res = "ok" /\ ev.doc = "d1"
    /\ docs["d1"] = [kind |-> "doc", title |-> "t", text |-> <<"a", "b">>,
                     version |-> 2]

\* context p takes a step of an append on an id that has no document
MissingAppendStep(p) ==
    op[p].kind = "append" /\ docs[op[p].doc].kind = "none" /\ pc'[p] # pc[p]

\* the step changes no document and no lock record of another id
TouchesOwnLockOnly(p) ==
    /\ docs' = docs
    /\ \A d \in DocIds \ {op[p].doc} : locks'[d] = locks[d]

\* the append on a missing id returns NotFound
MissingAppendReturns(p) ==
    /\ ReturnStep(p, "append")
    /\ docs[op[p].doc].kind = "none"

\* release() of the returning call found its lock blob unreadable (the blob
\* was corrupted while the call held it) and left it alone
BlobLostWhileHeld == ev'.kind = "release" /\ ev'.out = "corrupt"

ExpectedSkips(reqs) ==
    LET missing == SelectSeq(reqs, LAMBDA r : docs[r.doc].kind = "none")
    IN [j \in 1 .. Len(missing) |->
           [document |-> missing[j].doc, reason |-> "not_found"]]

\* the version a result entry reports is the stored one, less the results
\* for the same id that follow it in the batch
ExpectedResults(reqs) ==
    LET valid == SelectSeq(reqs, LAMBDA r : docs[r.doc].kind = "doc")
    IN [j \in 1 .. Len(valid) |->
           [id |-> valid[j].doc,
            version |-> docs[valid[j].doc].version
                        - Cardinality({k \in j + 1 .. Len(valid) :
                                         valid[k].doc = valid[j].doc})]]

BatchResponse ==
    ev.kind = "response" =>
        /\ ev.skipped = ExpectedSkips(ev.reqs)
        /\ ev.results = ExpectedResults(ev.reqs)

\* the request for a missing id is skipped without a change to the store,
\* and a request that saves reports the document at its version + 1
BatchRequestStep(p) ==
    /\ (op[p].kind = "batch" /\ pc[p] = "rl_exists" /\ pc'[p] # pc[p]
        /\ docs[op[p].doc].kind = "none") =>
          /\ docs' = docs /\ locks' = locks
          /\ op'[p].skipped = Append(op[p].skipped,
                                     [document |-> op[p].doc, reason |-> "not_found"])
          /\ op'[p].results = op[p].results
    /\ (BodyStep(p, "batch") /\ pc[p] = "save") =>
          /\ docs'[op[p].doc].version = docs[op[p].doc].version + 1
          /\ op'[p].results = Append(op[p].results,
                                     [id |-> op[p].doc,
                                      version |-> docs[op[p].doc].version + 1])

\* C23: in a redline batch a request for a missing id is recorded as a
\* skip with reason "not_found" and changes nothing, and every other
\* request of the batch is still processed: each of them yields a success
\* entry with the document at its version + 1, so one missing id and one
\* valid id yield one success entry and one skip entry.
C23_BatchIsolatesMissingId ==
    []BatchResponse /\ [][\A p \in Procs : BatchRequestStep(p)]_vars

\* the response to a batch whose first request names a missing id and
\* whose second request names the initial document
C23_Witness ==
    /\ ev.kind = "response" /\ Len(ev.reqs) = 2
    /\ ev.reqs[1].doc = "d2" /\ ev.reqs[2].doc = "d1"
    /\ ev.skipped = <<[document |-> "d2", reason |-> "not_found"]>>
    /\ ev.results = <<[id |-> "d1", version |-> 2]>>

OtherDocsSame(d) == \A x \in DocIds \ {d} : docs'[x] = docs[x]

DeleteStep(p) ==
    LET d == op[p].doc
    IN /\ (BodyStep(p, "delete") /\ pc[p] = "body") =>
             /\ docs'[d] = NoDoc /\ OtherDocsSame(d)
             /\ IF docs[d].kind = "doc" THEN pc'[p] = "del_lock"
                ELSE res'[p] = "false"
       /\ (BodyStep(p, "delete") /\ pc[p] = "del_lock") =>
             (docs' = docs /\ locks'[d] = NoRec /\ res'[p] = "true")
       /\ ReturnStep(p, "delete") =>
             /\ docs' = docs /\ docs[d] = NoDoc
             /\ ev'.res = res[p] /\ res[p] \in {"true", "false"}
             /\ BlobLostWhileHeld \/ locks'[d] = NoRec

\* C24: with no concurrent operation, delete(id) that acquired the lock
\* leaves neither a document record nor a lock record for id, leaves every
\* other document as it was, and returns True exactly when the document
\* record existed before the call (a lock blob corrupted during the call
\* aside).
C24_DeleteRemovesBoth == [][\A p \in Procs : DeleteStep(p)]_vars

\* delete of the existing document has returned True
C24_Witness ==
    /\ ev.kind = "release" /\ ev.res = "true"
    /\ docs[ev.doc] = NoDoc /\ locks[ev.doc] = NoRec

\* the loop of cleanup_expired_locks is through with a blob: one that was
\* readable and within its timeout is still there, any other is removed
\* and counted
CleanedOne ==
    ev.kind = "cleaned_one" =>
        IF ev.stored.kind = "rec" /\ ~(now - ev.stored.timestamp > ev.stored.timeout)
        THEN ~ev.removed /\ locks[ev.doc] = ev.stored
        ELSE ev.stored.kind # "none" => (ev.removed /\ locks[ev.doc] = NoRec)

\* the lock records a step removes
Removed == {d \in DocIds : locks[d].kind # "none" /\ locks'[d].kind = "none"}

CleanupStep(p) ==
    /\ (pc[p] = "idle" /\ pc'[p] \in {"cl_read", "cl_done"}) =>
          /\ op'[p].count = 0
          /\ \A d \in DocIds : locks[d].kind # "none" =>
                \E i \in 1 .. Len(op'[p].todo) : op'[p].todo[i] = d
    /\ (op[p].kind = "cleanup" /\ op'[p].kind = "cleanup" /\ op'[p] # op[p]) =>
          /\ docs' = docs
          /\ op'[p].count = op[p].count + Cardinality(Removed)
          /\ Removed \subseteq {Head(op[p].todo)}
          /\ \A d \in DocIds \ Removed : locks'[d] = locks[d]
    /\ (pc[p] = "cl_done" /\ pc'[p] = "idle") =>
          (ev'.kind = "cleaned" /\ ev'.count = op[p].count
           /\ docs' = docs /\ locks' = locks)

\* C25: run with no concurrent operation, cleanup_expired_locks lists every
\* lock record, removes each one that is unreadable or older than its
\* stored timeout, leaves each readable one within its timeout and every
\* document in place, and returns the number of lock records it removed.
C25_CleanupRemovesStale ==
    []CleanedOne /\ [][CleanupStep(Cleaner)]_vars

\* a cleanup that removed the record of d1 has found the record of d2
\* within its timeout and left it
C25_Witness ==
    /\ ev.kind = "cleaned_one" /\ ev.doc = "d2" /\ ~ev.removed
    /\ ev.stored.kind = "rec" /\ locks["d2"] = ev.stored
    /\ op[Cleaner].kind = "cleanup" /\ op[Cleaner].count = 1
    /\ locks["d1"] = NoRec

\* the outcomes that stand for a document that is not there
AbsentOutcomes == {"absent", "not_found", "skipped:not_found"}

\* context p's acquire() returns False on a live record of another handle
BlockedStep(p) ==
    /\ pc[p] = "acq_read" /\ ev'.kind = "acquire" /\ ev'.p = p
    /\ ReadLive(ev')

BlockedOutcome(p) ==
    BlockedStep(p) =>
        /\ docs' = docs
        /\ ~ev'.held /\ ev'.res \notin AbsentOutcomes
        /\ IF op[p].kind = "batch"
           THEN /\ op'[p].results = op[p].results
                /\ op'[p].skipped =
                      Append(op[p].skipped,
                             [document |-> op[p].doc, reason |-> "processing_error"])
           ELSE /\ op[p].kind \in {"get", "append"} => ev'.res = "lock_unavailable"
                /\ pc'[p] = "idle"

\* C26: a request that finds the lock held by a live, unexpired record is
\* not reported as absent or NotFound: get and append fail with the
\* lock-unavailable error, a redline request is recorded as a skip with
\* reason "processing_error", and the documents are unchanged.
C26_BlockedIsNotNotFound == [][\A p \in Procs : BlockedOutcome(p)]_vars

\* the first request of a batch was refused the lock and recorded as
\* skipped; the second one is at hand
C26_Witness ==
    /\ ev.kind = "acquire" /\ ReadLive(ev) /\ ev.res = "skipped:processing_error"
    /\ op[ev.p].kind = "batch" /\ pc[ev.p] = "rl_exists"
    /\ op[ev.p].skipped = <<[document |-> ev.doc, reason |-> "processing_error"]>>

\* C27: when reading the record of an existing document fails during get
\* or append, the caller gets an operation failure, not the outcome of a
\* missing document (None from get, False from append).
C27_ReadFailureSurfaces ==
    (/\ ev.kind = "read_failed" /\ ev.op \in {"get", "append"}
     /\ ev.existing.kind = "doc") =>
        (ev.res \notin AbsentOutcomes /\ res[ev.p] \notin AbsentOutcomes)

\* the changes are applied last to first; every target change meets its
\* occurrence, on the text as it is by then, at the offset it has in the
\* original text
RECURSIVE SpansResolved(_, _, _)
SpansResolved(orig, cur, sorted) ==
    IF sorted = <<>> THEN TRUE
    ELSE LET c == sorted[Len(sorted)]
         IN /\ c.kind = "target" =>
                  FindTargetPosition(cur, c) = FindTargetPosition(orig, c)
            /\ SpansResolved(orig, ApplySingleChange(cur, c),
                             SubSeq(sorted, 1, Len(sorted) - 1))

\* C28: every valid target change of a batch replaces the span
\* [p, p + len(target_text)) with p the offset of its occurrence in the
\* original text, whatever changes of the batch were applied before it.
C28_TargetSpansResolvedOnOriginal ==
    ev.kind = "applied" =>
        SpansResolved(ev.text, ev.text, SortChangesByPosition(ev.text, ev.changes))

\* a batch of two target changes with one target_text and one occurrence
\* k >= 1, on a text with at least k + 1 matches that do not overlap, no
\* replacement containing the target
TiedPair(e) ==
    /\ e.kind = "applied" /\ Len(e.changes) = 2
    /\ e.changes[1].kind = "target" /\ e.changes[2].kind = "target"
    /\ e.changes[1].target_text = e.changes[2].target_text
    /\ e.changes[1].occurrence = e.changes[2].occurrence
    /\ e.changes[1].occurrence >= 1
    /\ Cardinality(DisjointOffsets(e.text, e.changes[1].target_text, 0))
          >= e.changes[1].occurrence + 1
    /\ MatchOffsets(e.changes[1].replacement, e.changes[1].target_text) = {}
    /\ MatchOffsets(e.changes[2].replacement, e.changes[1].target_text) = {}

\* text with the span of target at offset m replaced by R
Replaced(text, m, target, R) ==
    SubSeq(text, 1, m) \o R \o SubSeq(text, m + Len(target) + 1, Len(text))

\* with S as the matches of the original text: the change later in the
\* batch replaced the k-th match and the earlier one the (k+1)-th
TwoReplaced(e, S) ==
    LET T == e.changes[1].target_text
        k == e.changes[1].occurrence
    IN /\ Cardinality(S) >= k + 1
       /\ Kth(S, k) + Len(T) <= Kth(S, k + 1)
       /\ e.result = Replaced(Replaced(e.text, Kth(S, k + 1), T,
                                       e.changes[1].replacement),
                              Kth(S, k), T, e.changes[2].replacement)

LeftByLater(e) ==
    Replaced(e.text,
             Kth(MatchOffsets(e.text, e.changes[2].target_text),
                 e.changes[2].occurrence),
             e.changes[2].target_text, e.changes[2].replacement)

\* no two matches of the target overlap in the text
MatchesApart(text, target) ==
    MatchOffsets(text, target) = DisjointOffsets(text, target, 0)

\* every match in the text left by the later change lies wholly before or
\* wholly behind the replacement put in
NoNewMatch(e) ==
    LET T == e.changes[2].target_text
        a == Kth(MatchOffsets(e.text, T), e.changes[2].occurrence)
    IN \A m \in MatchOffsets(LeftByLater(e), T) :
          m + Len(T) <= a \/ m >= a + Len(e.changes[2].replacement)

TakesEffect(cur, c) ==
    IF c.kind = "target" THEN FindTargetPosition(cur, c) # -1
    ELSE RangeValid(cur, c)

\* the changes are applied last to first and every one takes effect
RECURSIVE NeverDropped(_, _)
NeverDropped(cur, sorted) ==
    IF sorted = <<>> THEN TRUE
    ELSE LET c == sorted[Len(sorted)]
         IN /\ TakesEffect(cur, c)
            /\ NeverDropped(ApplySingleChange(cur, c),
                            SubSeq(sorted, 1, Len(sorted) - 1))

\* C30: every change that is valid against the original text is applied:
\* none is dropped because the changes applied before it altered the text,
\* overlapping changes included.
C30_ValidChangesAlwaysApplied ==
    ev.kind = "applied" =>
        NeverDropped(ev.text, SortChangesByPosition(ev.text, ev.changes))

\* context p takes the overwrite step of _steal_lock
StealStep(p) == pc[p] = "acq_steal" /\ pc'[p] # "acq_steal"

\* C31: a contender that read an expired record overwrites it whatever
\* other contenders that read the same record have written since: its
\* acquire() returns held, the stored record carries its lock_id, and the
\* handles that returned held before it stay as they are.
C31_StealLastWriterWins ==
    [][\A p \in Procs :
          (StealStep(p) /\ loc[p].existing.kind = "rec") =>
              /\ ev'.kind = "acquire" /\ ev'.p = p /\ ev'.out = "stolen" /\ ev'.held
              /\ h'[p].lock_acquired
              /\ locks'[h[p].doc].kind = "rec"
              /\ locks'[h[p].doc].lock_id = h[p].lock_id
              /\ \A q \in Procs \ {p} : h'[q] = h[q]]_vars

\* the expired record of a scope that is still in its body was read by two
\* contenders; one overwrote it and entered its body, then the other
\* overwrote that record: three handles are held and the stored record is
\* the last writer's
C31_Witness ==
    /\ ev.kind = "acquire" /\ ev.out = "stolen" /\ ReadExpired(ev)
    /\ StoresIdOf(ev.doc, ev.lock_id)
    /\ \E q, r \in HeldOn(ev.doc) :
          /\ q # ev.p /\ r # ev.p /\ q # r
          /\ pc[q] = "body" /\ pc[r] = "body" /\ pc[ev.p] = "body"
          /\ h[r].lock_id = ev.existing.lock_id

\* the cleanup of context p takes the delete it decided on when it read a
\* record past its timeout
ExpiredDeleteStep(p) ==
    /\ pc[p] = "cl_delete" /\ op[p].mode = "expired"
    /\ op'[p] # op[p]

\* C32: the delete of cleanup_expired_locks removes the record stored when
\* it runs, not the expired one it read: a contender that has stolen the
\* record in between loses its unexpired record and still has its handle
\* held.
C32_CleanupDeletesWhatIsStored ==
    [][\A d \in DocIds :
          (ExpiredDeleteStep(Cleaner) /\ Head(op[Cleaner].todo) = d
           /\ locks[d].kind # "none") =>
              /\ locks'[d] = NoRec
              /\ ev'.kind = "cleaned_one" /\ ev'.removed /\ ev'.stored = locks[d]
              /\ h' = h]_vars

\* cleanup has removed a record within its timeout whose handle is held by
\* a context inside its scope
C32_Witness ==
    /\ ev.kind = "cleaned_one" /\ ev.removed /\ ev.mode = "expired"
    /\ ev.stored.kind = "rec"
    /\ now - ev.stored.timestamp <= ev.stored.timeout
    /\ locks[ev.doc] = NoRec
    /\ \E q \in HeldOn(ev.doc) :
          pc[q] = "body" /\ h[q].lock_id = ev.stored.lock_id

\* the list names an id twice
HasDuplicate(ids) ==
    \E i, j \in 1 .. Len(ids) : i < j /\ ids[i] = ids[j]

DuplicateCall(p) == op[p].kind = "hier" /\ HasDuplicate(op[p].input)

\* no lock record is stored for an id the call of p requested
NoRecordOfCall(p) ==
    \A i \in 1 .. Len(op[p].ids) : locks[op[p].ids[i]] = NoRec

\* C33 as it reads: a lock_hierarchy call whose list names an id twice,
\* alone on a store without lock records, always fails: its body never
\* runs, and when it is over no lock record of a requested id is stored.
C33_DuplicateIdAlwaysFails ==
    \A p \in Procs : DuplicateCall(p) =>
        /\ pc[p] # "hbody" /\ ~op[p].ran
        /\ pc[p] = "hdone" => (op[p].failed # "none" /\ NoRecordOfCall(p))

\* the acquire() of p reads the record an earlier handle of the same call
\* wrote, within its timeout
ReadsOwnLiveRecord(p) ==
    /\ op[p].kind = "hier" /\ pc[p] = "acq_read" /\ pc'[p] # "acq_read"
    /\ locks[h[p].doc].kind = "rec"
    /\ locks[h[p].doc].lock_id \in {g.lock_id : g \in GotOf(p)}
    /\ now - locks[h[p].doc].timestamp <= locks[h[p].doc].timeout

\* a call with a duplicate id is refused on its own live record and rolls
\* back; it reaches its body only by stealing its own expired record
DuplicateCallStep(p) ==
    /\ ReadsOwnLiveRecord(p) =>
          /\ ev'.kind = "acquire" /\ ev'.out = "refused"
          /\ op'[p].failed = h[p].doc /\ ~op'[p].ran
          /\ pc'[p] = "rel_read" /\ op'[p].phase = "rollback"
    /\ (DuplicateCall(p) /\ pc[p] # "hbody" /\ pc'[p] = "hbody") =>
          /\ ev'.kind = "acquire" /\ ev'.out = "stolen"
          /\ ev'.existing.kind = "rec"
          /\ ev'.existing.lock_id = op[p].got[1].lock_id
          /\ ev'.read_at - ev'.existing.timestamp > ev'.existing.timeout

\* C33, amended: such a call fails whenever the record its first handle
\* wrote is within its timeout when the second acquire of the id reads it;
\* the body does not run, and when the call is over no lock record of a
\* requested id is stored. The body runs only after the second acquire
\* has stolen the call's own expired record.
C33_DuplicateIdFailsWithinTimeout ==
    /\ [](\A p \in Procs : (DuplicateCall(p) /\ HierFailed(p)) =>
             (HierFailedCleanly(p) /\ NoRecordOfCall(p)))
    /\ [][\A p \in Procs : DuplicateCallStep(p)]_vars

\* a call on <<d1, d1>> is over: refused on d1 by its own first handle, it
\* has removed the record and never ran its body
C33_Witness ==
    \E p \in Procs :
        /\ DuplicateCall(p) /\ HierFailed(p)
        /\ Len(op[p].got) = 1 /\ op[p].failed = op[p].got[1].doc
        /\ NoRecordOfCall(p) /\ ~op[p].ran

\* the calls under way are all that ever ran: every context is in its
\* first lock_hierarchy call, on a list without duplicates, or has done
\* nothing yet
FirstCallsOnly ==
    /\ HierCalls # {}
    /\ \A p \in Procs :
          IF p \in HierCalls
          THEN op[p].base = 0 /\ ~HasDuplicate(op[p].input)
          ELSE made[p] = 0

\* C34: of lock_hierarchy calls on duplicate-free lists that run
\* concurrently on a store that had no lock record, with no expiry, no
\* store failure and nothing else touching the locks, not all fail: when
\* all are over, one of them has acquired all its locks and run its body.
C34_NotAllCallsFail ==
    (FirstCallsOnly /\ \A p \in HierCalls : pc[p] = "hdone") =>
        \E p \in HierCalls :
            /\ op[p].failed = "none" /\ op[p].ran
            /\ Len(op[p].got) = Len(op[p].ids)

\* two calls that met on an id are over: one was refused and rolled back,
\* the other one ran its body holding both ids
C34_Witness ==
    /\ FirstCallsOnly /\ \A p \in HierCalls : pc[p] = "hdone"
    /\ \E p, q \in HierCalls :
          /\ op[p].failed # "none" /\ Len(op[p].got) = 1
          /\ op[q].failed = "none" /\ op[q].ran /\ Len(op[q].got) = 2

\* a scope of context p holds the lock of d: its handle for d is held
ScopeHolds(p, d) ==
    IF op[p].kind = "hier"
    THEN \E g \in GotOf(p) : g.doc = d /\ g.lock_acquired
    ELSE h[p].lock_acquired /\ h[p].doc = d

\* C35: an id is in _local_locks of a coordinator exactly when a
\* lock_document or lock_hierarchy scope opened through that coordinator
\* holds the lock of the id, also while scopes of the same coordinator
\* contend for one id and one of them fails to acquire.
C35_LocalLocksExact ==
    \A c \in Coordinators, d \in DocIds :
        d \in local_locks[c] <=>
            \E p \in Procs : CoordOf[p] = c /\ ScopeHolds(p, d)

\* every operation that was started has returned
Quiescent == \A p \in Procs : pc[p] = "idle"

\* C36: whenever every started scoped operation has returned, no store
\* call having failed, the store holds no lock record, whatever expiries,
\* steals and racing releases came before.
C36_NoLockLeftAtQuiescence ==
    Quiescent => \A d \in DocIds : locks[d] = NoRec

\* all is quiet after a race: the last operation to return was a scope
\* whose record had been stolen and removed by the thief, so that its
\* release() found nothing
C36_Witness ==
    /\ Quiescent /\ \A d \in DocIds : locks[d] = NoRec
    /\ ev.kind = "release" /\ ev.out = "absent"
    /\ \A p \in FailProcs : made[p] > 0

\* the ids of the requests numbered in I, in request order
IdsAt(reqs, I) ==
    LET picked == SelectSeq([i \in 1 .. Len(reqs) |-> <<i, reqs[i].doc>>],
                            LAMBDA pr : pr[1] \in I)
    IN [j \in 1 .. Len(picked) |-> picked[j][2]]

\* the requests split into those that gave the success entries and those
\* that gave the skip entries, each request on one side
OneEntryEach(e) ==
    \E I \in SUBSET (1 .. Len(e.reqs)) :
        /\ IdsAt(e.reqs, I) = [j \in 1 .. Len(e.results) |-> e.results[j].id]
        /\ IdsAt(e.reqs, (1 .. Len(e.reqs)) \ I)
              = [j \in 1 .. Len(e.skipped) |-> e.skipped[j].document]

EditNamesNothing(text, e) ==
    IF e.kind = "target"
    THEN e.occurrence < 1
         \/ Cardinality(MatchOffsets(text, e.target_text)) < e.occurrence
    ELSE ~(0 <= e.start /\ e.start <= e.end /\ e.end <= Len(text))

\* context p is about to save the document of a redline request whose edit
\* names nothing in the stored text
SavesDroppedEdit(p) ==
    /\ pc[p] = "save" /\ op[p].kind \in {"redline", "batch"}
    /\ loc[p].document = docs[op[p].doc]
    /\ EditNamesNothing(docs[op[p].doc].text, op[p].edit)

\* the request of context p is recorded as done at the version stored
RecordedDone(p) ==
    /\ res'[p] = "ok"
    /\ op[p].kind = "batch" =>
          op'[p].results = Append(op[p].results,
                                  [id |-> op[p].doc,
                                   version |-> docs'[op[p].doc].version])

\* C38: a redline request for a stored document it has locked, whose one
\* edit is dropped by apply_changes, is saved and recorded as a success all
\* the same: the stored text stays as it was and the stored version grows
\* by 1.
C38_DroppedEditStillSaved ==
    [][\A p \in Procs :
          (SavesDroppedEdit(p) /\ pc'[p] # pc[p]) =>
              /\ docs'[op[p].doc].text = docs[op[p].doc].text
              /\ docs'[op[p].doc].version = docs[op[p].doc].version + 1
              /\ RecordedDone(p)]_vars

\* a request with the target edit has been saved for a text without the
\* target: same text, next version, and the success entry is in the list
C38_Witness ==
    /\ ev.kind = "write" /\ ev.op = "batch"
    /\ EditNamesNothing(ev.before.text, op[ev.p].edit)
    /\ ev.after.text = ev.before.text
    /\ ev.after.version = ev.before.version + 1
    /\ op[ev.p].results # <<>>
    /\ op[ev.p].results[Len(op[ev.p].results)]
          = [id |-> ev.doc, version |-> ev.after.version]

\* C39: the stored version of a document never goes down: every write of
\* a document record by append or by a redline request, in every
\* interleaving of such calls on one document, stores a version that is at
\* least the one stored just before the write.
C39_VersionNeverDecreases ==
    (ev.kind = "write" /\ ev.before.kind = "doc") =>
        ev.after.version >= ev.before.version

\* C40: a handle used directly as the scope of a with statement guards its
\* body as lock_document does: the body runs only with a handle whose
\* acquire() returned held.
C40_DirectScopeBodyHeld ==
    \A p \in Procs :
        (op[p].kind = "direct" /\ pc[p] = "body") => h[p].lock_acquired

====
